---------------------------- MODULE Spec2Model ----------------------------
(***************************************************************************)
(* Model of the weighted-die simulation engine (src/lib/die.ts) and of the *)
(* page state that keeps the bubble inside the die (src/app/page.tsx).     *)
(*                                                                         *)
(* A JavaScript number is modelled as a record [n |-> num, d |-> den]:     *)
(* d > 0 is the finite rational n/d in lowest terms; d = 0 is a            *)
(* non-finite value (n = 0: NaN, n = 1: Infinity, n = -1: -Infinity).      *)
(* Numbers are binary floating point: the result of + and / is the exact   *)
(* result rounded to the nearest number with Precision significant bits,   *)
(* ties to even, as IEEE 754 does with 53 bits.  The exponent range is     *)
(* bounded (MaxExp) in the products, quotients, roots and powers of the    *)
(* dimension converters, where overflow gives Infinity and underflow 0;    *)
(* elsewhere the modelled values stay far from either.  Loop counters and  *)
(* tallies, which only ever hold small integers that a double represents   *)
(* exactly (i, counts, sumValues, the floored n and sampleStep), are TLA+  *)
(* integers.                                                               *)
(*                                                                         *)
(* A function that can throw is modelled by an operator returning          *)
(* [ok |-> BOOLEAN, val |-> result, err |-> message of the Error thrown].  *)
(***************************************************************************)
EXTENDS Integers, Sequences, FiniteSets, TLC

(***************************************************************************)
(* Bounds of the model.                                                    *)
(***************************************************************************)
Precision == 6  \* significant bits of a number (53 in a double)
MaxLen == 4     \* longest vector passed to normalizeWeights, buildCDF, invBySeqSearch
MaxFaces == 3   \* longest weight vector passed to simulateRolls
MaxN == 3       \* largest number of rolls requested
MaxStep == 2    \* largest explicit sampleStep requested
UDen == 4       \* Math.random() yields the number nearest k/UDen, k in 0..UDen-1
MaxExp == 16    \* exponent range of products, quotients, roots, powers (1024 in a double)
MaxRolls == 20  \* largest number of rolls the page is asked to simulate

(***************************************************************************)
(* Numbers.                                                                *)
(***************************************************************************)
RECURSIVE GCD(_, _)
GCD(a, b) == IF b = 0 THEN a ELSE GCD(b, a % b)

Abs(x) == IF x < 0 THEN -x ELSE x

\* the finite number a/b, b # 0, in lowest terms with positive denominator
Rat(a, b) ==
    LET s == IF b < 0 THEN -1 ELSE 1
        g == GCD(Abs(a), Abs(b))
    IN  [n |-> (s * a) \div g, d |-> (s * b) \div g]

Num(k) == [n |-> k, d |-> 1]

NaN == [n |-> 0, d |-> 0]
PosInf == [n |-> 1, d |-> 0]

\* Number.isFinite
IsFinite(x) == x.d # 0

\* a <= b, a < b on finite numbers
RLeq(a, b) == a.n * b.d <= b.n * a.d
RLt(a, b) == a.n * b.d < b.n * a.d

\* m * 2^e as a number
Scaled(m, e) == IF e >= 0 THEN Num(m * (2 ^ e)) ELSE Rat(m, 2 ^ (-e))

\* the integer nearest a/b, ties to even
NearestEven(a, b) ==
    IF 2 * (a % b) > b \/ (2 * (a % b) = b /\ (a \div b) % 2 = 1)
    THEN (a \div b) + 1
    ELSE a \div b

\* (a/b) * 2^e, a/b > 0, rounded to Precision significant bits, to nearest, ties
\* to even: a/b is scaled by powers of 2 until its integer part has Precision bits
RECURSIVE RoundPos(_, _, _)
RoundPos(a, b, e) ==
    IF a \div b >= 2 ^ Precision THEN RoundPos(a, 2 * b, e + 1)
    ELSE IF a \div b < 2 ^ (Precision - 1)
         THEN IF b % 2 = 0 THEN RoundPos(a, b \div 2, e - 1)
              ELSE RoundPos(2 * a, b, e - 1)
    ELSE Scaled(NearestEven(a, b), e)

\* the finite number x rounded to the nearest representable number
Neg(x) == [n |-> -x.n, d |-> x.d]

Round(x) ==
    IF x.n = 0 THEN x
    ELSE IF x.n > 0 THEN RoundPos(x.n, x.d, 0)
    ELSE Neg(RoundPos(-x.n, x.d, 0))

\* a + b on finite numbers
RAdd(a, b) == Round(Rat(a.n * b.d + b.n * a.d, a.d * b.d))

\* a / b on finite numbers; x/0 is NaN for x = 0 and +-Infinity otherwise
RDiv(a, b) ==
    IF b.n = 0
    THEN [n |-> IF a.n > 0 THEN 1 ELSE IF a.n < 0 THEN -1 ELSE 0, d |-> 0]
    ELSE Round(Rat(a.n * b.d, a.d * b.n))

\* Math.floor on a finite number
Floor(x) == x.n \div x.d

\* (a % b === 0) for integers a >= 0, b >= 0; a % 0 is NaN, never === 0
ModIsZero(a, b) == b # 0 /\ a % b = 0

\* weights.reduce((acc, w) => acc + w, 0)
RECURSIVE RSum(_)
RSum(s) == IF s = <<>> THEN Num(0) ELSE RAdd(RSum(SubSeq(s, 1, Len(s) - 1)), s[Len(s)])

Ok(v) == [ok |-> TRUE, val |-> v, err |-> ""]
Throw(msg) == [ok |-> FALSE, val |-> <<>>, err |-> msg]

(***************************************************************************)
(* normalizeWeights (die.ts 152-165).  Sequences are 1-based here:         *)
(* weights[k] of the model is weights[k-1] of the code.                    *)
(***************************************************************************)
\* the validation loop of lines 157-160, from entry k on: the message of
\* the first Error thrown, "" when the loop completes
\* mutant: the test for negative entries is missing
RECURSIVE checkWeightsFiniteOnly(_, _)
checkWeightsFiniteOnly(weights, k) ==
    IF k > Len(weights) THEN ""
    ELSE IF ~IsFinite(weights[k]) THEN "Weights must be finite numbers."
    ELSE checkWeightsFiniteOnly(weights, k + 1)

RECURSIVE checkWeights(_, _)
checkWeights(weights, k) ==
    IF k > Len(weights) THEN ""
    ELSE IF ~IsFinite(weights[k]) THEN "Weights must be finite numbers."
    ELSE IF RLt(weights[k], Num(0)) THEN "Weights must be >= 0."
    ELSE checkWeights(weights, k + 1)

\* mutant: divides by the number of entries instead of their sum
normalizeWeightsByLength(weights) ==
    IF Len(weights) = 0 THEN Throw("Weights must be a non-empty array.")
    ELSE IF checkWeights(weights, 1) # "" THEN Throw(checkWeights(weights, 1))
    ELSE LET sum == RSum(weights)
         IN  IF RLeq(sum, Num(0))
             THEN Ok([k \in 1..Len(weights) |-> RDiv(Num(1), Num(Len(weights)))])
             ELSE Ok([k \in 1..Len(weights) |-> RDiv(weights[k], Num(Len(weights)))])

\* mutant: a sum <= 0 is an error instead of the uniform fallback
normalizeWeightsThrowOnZero(weights) ==
    IF Len(weights) = 0 THEN Throw("Weights must be a non-empty array.")
    ELSE IF checkWeights(weights, 1) # "" THEN Throw(checkWeights(weights, 1))
    ELSE LET sum == RSum(weights)
         IN  IF RLeq(sum, Num(0))
             THEN Throw("Sum of weights must be > 0")
             ELSE Ok([k \in 1..Len(weights) |-> RDiv(weights[k], sum)])

normalizeWeights(weights) ==
    IF Len(weights) = 0 THEN Throw("Weights must be a non-empty array.")
    ELSE IF checkWeights(weights, 1) # "" THEN Throw(checkWeights(weights, 1))
    ELSE LET sum == RSum(weights)
         IN  IF RLeq(sum, Num(0))
             THEN Ok([k \in 1..Len(weights) |-> RDiv(Num(1), Num(Len(weights)))])
             ELSE Ok([k \in 1..Len(weights) |-> RDiv(weights[k], sum)])

(***************************************************************************)
(* buildCDF (die.ts 23-35)                                                 *)
(***************************************************************************)
\* the accumulation loop of lines 27-31 from entry k on, s the running sum
RECURSIVE cdfLoop(_, _, _, _)
cdfLoop(p, k, s, cdf) ==
    IF k > Len(p) THEN cdf
    ELSE cdfLoop(p, k + 1, RAdd(s, p[k]), Append(cdf, RAdd(s, p[k])))

buildCDF(probs) ==
    LET r == normalizeWeights(probs)
    IN  IF ~r.ok THEN r
        ELSE LET cdf == cdfLoop(r.val, 1, Num(0), <<>>)
             IN  Ok([cdf EXCEPT ![Len(cdf)] = Num(1)])

(***************************************************************************)
(* invBySeqSearch (die.ts 38-43); the result is the code's 0-based index.  *)
(***************************************************************************)
\* mutant: the comparison is strict, u < cdf[i]
RECURSIVE seqSearchStrict(_, _, _)
seqSearchStrict(cdf, u, k) ==
    IF k > Len(cdf) THEN Len(cdf) - 1
    ELSE IF RLt(u, cdf[k]) THEN k - 1
    ELSE seqSearchStrict(cdf, u, k + 1)

RECURSIVE seqSearch(_, _, _)
seqSearch(cdf, u, k) ==
    IF k > Len(cdf) THEN Len(cdf) - 1
    ELSE IF RLeq(u, cdf[k]) THEN k - 1
    ELSE seqSearch(cdf, u, k + 1)

invBySeqSearch(cdf, u) == seqSearch(cdf, u, 1)

(***************************************************************************)
(* rollFromProbs (die.ts 168-194), with Math.random() = uu; the result is  *)
(* the code's 0-based index.                                               *)
(***************************************************************************)
\* the validation part of the loop of lines 174-178, from entry k on: the
\* message of the first Error thrown, "" when the loop completes
RECURSIVE checkProbs(_, _)
checkProbs(probs, k) ==
    IF k > Len(probs) THEN ""
    ELSE IF ~IsFinite(probs[k]) THEN "Probabilities must be finite numbers."
    ELSE IF RLt(probs[k], Num(0)) THEN "Probabilities must be >= 0."
    ELSE checkProbs(probs, k + 1)

\* the 1e-9 of line 182: a few units in the last place of numbers near 1
RollTolerance == Rat(1, 2 ^ (Precision - 2))

\* Math.abs(s - 1) > 1e-9
farFromOne(s) ==
    LET diff == RAdd(s, Num(-1))
    IN  RLt(RollTolerance, IF diff.n < 0 THEN Neg(diff) ELSE diff)

\* the scan of lines 187-193 from entry k on
RECURSIVE rollScan(_, _, _, _)
rollScan(probs, uu, k, cumulative) ==
    IF k > Len(probs) THEN Len(probs) - 1
    ELSE IF RLeq(uu, RAdd(cumulative, probs[k])) THEN k - 1
    ELSE rollScan(probs, uu, k + 1, RAdd(cumulative, probs[k]))

rollFromProbs(probs, uu) ==
    IF Len(probs) = 0 THEN Throw("Probs must be a non-empty array.")
    ELSE IF checkProbs(probs, 1) # "" THEN Throw(checkProbs(probs, 1))
    ELSE LET s == RSum(probs)
         IN  IF RLeq(s, Num(0)) THEN Throw("Sum of probabilities must be > 0.")
             ELSE IF farFromOne(s)
                  THEN Ok(rollScan([k \in 1..Len(probs) |-> RDiv(probs[k], s)],
                                   uu, 1, Num(0)))
                  ELSE Ok(rollScan(probs, uu, 1, Num(0)))

(***************************************************************************)
(* Arithmetic of the bubble geometry.  The bubble and the box hold finite  *)
(* numbers.                                                                *)
(***************************************************************************)
\* a - b, Math.abs on finite numbers
RSub(a, b) == RAdd(a, Neg(b))
RAbs(x) == IF x.n < 0 THEN Neg(x) ELSE x

\* Math.max, Math.min of two numbers: NaN if either is NaN
FMax(a, b) == IF a = NaN \/ b = NaN THEN NaN ELSE IF RLeq(a, b) THEN b ELSE a
FMin(a, b) == IF a = NaN \/ b = NaN THEN NaN ELSE IF RLeq(a, b) THEN a ELSE b

\* the literal 0.01: the number nearest 1/100
MinDim == Round(Rat(1, 100))

\* clamp (die.ts 13-15)
clamp(v, min, max) == FMin(FMax(v, min), max)

(***************************************************************************)
(* clampBubbleToDie (die.ts 46-86).  A BubbleConfig is                     *)
(* [enabled, offset |-> [x, y, z], radius], a die is [lx, ly, lz].  The    *)
(* result is [val |-> the object returned, same |-> whether that object is *)
(* the argument itself, arg |-> the argument object as the call leaves it].*)
(***************************************************************************)
\* lines 53-60: the half-dimensions of the cleaned die
halfOf(die) ==
    [x |-> RDiv(FMax(die.lx, MinDim), Num(2)),
     y |-> RDiv(FMax(die.ly, MinDim), Num(2)),
     z |-> RDiv(FMax(die.lz, MinDim), Num(2))]

\* lines 63-67
clampOffset(offset, h) ==
    [x |-> clamp(offset.x, Neg(h.x), h.x),
     y |-> clamp(offset.y, Neg(h.y), h.y),
     z |-> clamp(offset.z, Neg(h.z), h.z)]

\* lines 70-73
maxRadiusAt(offset, h) ==
    FMax(Num(0), FMin(RSub(h.x, RAbs(offset.x)),
                      FMin(RSub(h.y, RAbs(offset.y)), RSub(h.z, RAbs(offset.z)))))

\* mutant: the radius is not limited by the room in the die
clampRadiusUnbounded(radius, maxRadius) == FMax(radius, Num(0))

\* mutant: the radius kept is half the clamped one
clampRadiusHalved(radius, maxRadius) == RDiv(clamp(radius, Num(0), maxRadius), Num(2))

\* line 76
clampRadius(radius, maxRadius) == clamp(radius, Num(0), maxRadius)

\* mutant: the offset is kept a diameter away from the walls
reclampOffsetByDiameter(offset, h, r) ==
    [x |-> clamp(offset.x, Neg(RSub(h.x, RAdd(r, r))), RSub(h.x, RAdd(r, r))),
     y |-> clamp(offset.y, Neg(RSub(h.y, RAdd(r, r))), RSub(h.y, RAdd(r, r))),
     z |-> clamp(offset.z, Neg(RSub(h.z, RAdd(r, r))), RSub(h.z, RAdd(r, r)))]

\* lines 79-83
reclampOffset(offset, h, r) ==
    [x |-> clamp(offset.x, Neg(RSub(h.x, r)), RSub(h.x, r)),
     y |-> clamp(offset.y, Neg(RSub(h.y, r)), RSub(h.y, r)),
     z |-> clamp(offset.z, Neg(RSub(h.z, r)), RSub(h.z, r))]

\* mutant: the fields of the argument are assigned and the argument returned
assignInPlace(bubble, radius, offset) ==
    [val |-> [bubble EXCEPT !.radius = radius, !.offset = offset],
     same |-> TRUE,
     arg |-> [bubble EXCEPT !.radius = radius, !.offset = offset]]

\* line 85: a new object, the argument is only read
copyWith(bubble, radius, offset) ==
    [val |-> [bubble EXCEPT !.radius = radius, !.offset = offset],
     same |-> FALSE,
     arg |-> bubble]

\* mutant: a disabled bubble is clamped like an enabled one
returnsInputNever(bubble) == FALSE

\* line 50
returnsInput(bubble) == ~bubble.enabled

\* lines 62-85, the second and third step on the offset o of the first
clampFrom(bubble, h, o) ==
    copyWith(bubble,
             clampRadius(bubble.radius, maxRadiusAt(o, h)),
             reclampOffset(o, h, clampRadius(bubble.radius, maxRadiusAt(o, h))))

clampBubbleToDie(bubble, die) ==
    IF returnsInput(bubble)
    THEN [val |-> bubble, same |-> TRUE, arg |-> bubble]
    ELSE clampFrom(bubble, halfOf(die), clampOffset(bubble.offset, halfOf(die)))

(***************************************************************************)
(* Arithmetic with a bounded exponent range, used where the code can       *)
(* overflow or underflow (Math.exp and the weights it scales, the          *)
(* dimension converter): a sum, product, quotient, root or power of        *)
(* magnitude 2^MaxExp or more overflows to Infinity, a non-zero one below  *)
(* 2^-MaxExp underflows to 0, and non-finite operands follow IEEE 754.     *)
(***************************************************************************)
Sign(k) == IF k > 0 THEN 1 ELSE IF k < 0 THEN -1 ELSE 0

Ranged(x) ==
    IF ~IsFinite(x) \/ x.n = 0 THEN x
    ELSE IF Abs(x.n) \div x.d >= 2 ^ MaxExp THEN [n |-> Sign(x.n), d |-> 0]
    ELSE IF x.d \div Abs(x.n) > 2 ^ MaxExp
            \/ (x.d \div Abs(x.n) = 2 ^ MaxExp /\ x.d % Abs(x.n) # 0) THEN Num(0)
    ELSE x

\* a * b
XMul(a, b) ==
    IF a = NaN \/ b = NaN THEN NaN
    ELSE IF ~IsFinite(a) \/ ~IsFinite(b)
         THEN [n |-> Sign(a.n) * Sign(b.n), d |-> 0]
    ELSE Ranged(Round(Rat(a.n * b.n, a.d * b.d)))

\* a / b
XDiv(a, b) ==
    IF a = NaN \/ b = NaN THEN NaN
    ELSE IF ~IsFinite(a)
         THEN (IF ~IsFinite(b) THEN NaN
               ELSE [n |-> Sign(a.n) * (IF b.n < 0 THEN -1 ELSE 1), d |-> 0])
    ELSE IF ~IsFinite(b) THEN Num(0)
    ELSE Ranged(RDiv(a, b))

\* a + b
XAdd(a, b) ==
    IF a = NaN \/ b = NaN THEN NaN
    ELSE IF ~IsFinite(a) THEN (IF ~IsFinite(b) /\ b.n # a.n THEN NaN ELSE a)
    ELSE IF ~IsFinite(b) THEN b
    ELSE Ranged(RAdd(a, b))

\* newWeights.reduce((acc, w) => acc + w, 0)
RECURSIVE XSum(_)
XSum(s) == IF s = <<>> THEN Num(0) ELSE XAdd(XSum(SubSeq(s, 1, Len(s) - 1)), s[Len(s)])

\* the integer part of the square root of q, lo * lo <= q < hi * hi
RECURSIVE ISqrt(_, _, _)
ISqrt(q, lo, hi) ==
    IF hi - lo <= 1 THEN lo
    ELSE IF ((lo + hi) \div 2) * ((lo + hi) \div 2) <= q
         THEN ISqrt(q, (lo + hi) \div 2, hi)
         ELSE ISqrt(q, lo, (lo + hi) \div 2)

\* the root of q = a \div b scaled by 2^e and rounded; the root of a/b lies
\* strictly between s and s + 1 unless a/b is the square of s
RootOf(a, b, e, s) ==
    IF a % b = 0 /\ s * s = a \div b THEN RoundPos(s, 1, e)
    ELSE RoundPos(2 * s + 1, 2, e)

\* sqrt(a/b) * 2^e for a/b > 0, rounded to nearest: a/b is scaled by powers
\* of 4 until its root has Precision + 2 bits before the point
RECURSIVE SqrtPos(_, _, _)
SqrtPos(a, b, e) ==
    IF a \div b >= 2 ^ (2 * Precision + 4) THEN SqrtPos(a, 4 * b, e + 1)
    ELSE IF a \div b < 2 ^ (2 * Precision + 2)
         THEN IF b % 4 = 0 THEN SqrtPos(a, b \div 4, e - 1)
              ELSE SqrtPos(4 * a, b, e - 1)
    ELSE RootOf(a, b, e, ISqrt(a \div b, 0, 2 ^ (Precision + 2)))

\* Math.sqrt
XSqrt(x) ==
    IF x = NaN \/ x.n < 0 THEN NaN
    ELSE IF ~IsFinite(x) \/ x.n = 0 THEN x
    ELSE SqrtPos(x.n, x.d, 0)

\* Math.pow(a, x) for a >= 0 and the exponents of the model
pow(a, x) ==
    CASE x = Num(0) -> Num(1)
      [] x = Num(1) -> a
      [] x = Num(2) -> XMul(a, a)
      [] x = Rat(1, 2) -> XSqrt(a)
      [] x = Num(-1) -> XDiv(Num(1), a)

(***************************************************************************)
(* applyBubblePhysics (die.ts 89-149).  The result is [ok, val, err] as    *)
(* for every function that can throw, with same |-> whether the array      *)
(* returned is the baseWeights argument itself and arg |-> that argument   *)
(* as the call leaves it.                                                  *)
(***************************************************************************)
\* a * b on finite numbers
RMul(a, b) == Round(Rat(a.n * b.n, a.d * b.d))

\* Math.PI: the number nearest pi
PI == Round(Rat(355, 113))

\* Math.exp is computed in fixed point with this many units to 1
ExpScale == 2 ^ 16

\* ExpScale * (1 + y + y^2/2! + ...) for y = yn/yd >= 0, summed from the term
\* of index j on, until the terms vanish
RECURSIVE expSeries(_, _, _, _, _)
expSeries(yn, yd, j, term, acc) ==
    IF term = 0 THEN acc
    ELSE expSeries(yn, yd, j + 1, (term * yn) \div (yd * j), acc + term)

\* the logarithm of 2^MaxExp: MaxExp * ln 2, with 355 / 512 for ln 2
ExpLimit == Rat(MaxExp * 355, 512)

\* Math.exp on a finite number; an argument below a quarter of the spacing of
\* the numbers next to 1 gives exactly 1, one of ExpLimit or more overflows to
\* Infinity, one of -ExpLimit or less underflows to 0
exp(x) ==
    IF RLt(RAbs(x), Rat(1, 2 ^ (Precision + 2))) THEN Num(1)
    ELSE IF RLeq(ExpLimit, x) THEN PosInf
    ELSE IF RLeq(x, Neg(ExpLimit)) THEN Num(0)
    ELSE IF x.n > 0 THEN Round(Rat(expSeries(x.n, x.d, 1, ExpScale, 0), ExpScale))
    ELSE Round(Rat(ExpScale, expSeries(-x.n, x.d, 1, ExpScale, 0)))

\* the value of an omitted argument
Undefined == [undefined |-> TRUE]

\* FACE_NORMS (lines 3-10)
FACE_NORMS ==
    << [x |-> Num(0), y |-> Num(1), z |-> Num(0)],
       [x |-> Num(1), y |-> Num(0), z |-> Num(0)],
       [x |-> Num(0), y |-> Num(0), z |-> Num(1)],
       [x |-> Num(0), y |-> Num(0), z |-> Num(-1)],
       [x |-> Num(-1), y |-> Num(0), z |-> Num(0)],
       [x |-> Num(0), y |-> Num(-1), z |-> Num(0)] >>

\* dot (lines 18-20)
dot(a, b) == RAdd(RAdd(RMul(a.x, b.x), RMul(a.y, b.y)), RMul(a.z, b.z))

\* the validation loop of lines 98-101, from entry k on
RECURSIVE checkBaseWeights(_, _)
checkBaseWeights(baseWeights, k) ==
    IF k > Len(baseWeights) THEN ""
    ELSE IF ~IsFinite(baseWeights[k]) THEN "baseWeights must contain finite numbers."
    ELSE IF RLt(baseWeights[k], Num(0)) THEN "baseWeights must be >= 0."
    ELSE checkBaseWeights(baseWeights, k + 1)

\* lines 104-106
cleanDie(die) ==
    [lx |-> FMax(die.lx, MinDim), ly |-> FMax(die.ly, MinDim), lz |-> FMax(die.lz, MinDim)]

\* the literal 1e-12 of line 121, below the volume of every solid part
MinSolid == Rat(1, 2 ^ 20)

\* lines 119-124: alpha for a bubble of radius r in the cleaned die
alphaOf(r, die) ==
    LET vDie == RMul(RMul(die.lx, die.ly), die.lz)
        vBubble == RMul(RMul(RMul(RMul(RDiv(Num(4), Num(3)), PI), r), r), r)
    IN  RDiv(vBubble, FMax(RSub(vDie, vBubble), MinSolid))

\* mutant: the centre of mass moves with the bubble
comShiftTowardBubble(alpha, offset) ==
    [x |-> RMul(alpha, offset.x),
     y |-> RMul(alpha, offset.y),
     z |-> RMul(alpha, offset.z)]

\* lines 127-131
comShiftOf(alpha, offset) ==
    [x |-> RMul(Neg(alpha), offset.x),
     y |-> RMul(Neg(alpha), offset.y),
     z |-> RMul(Neg(alpha), offset.z)]

\* lines 134-135
kOf(kBase, h) ==
    IF kBase # Undefined /\ IsFinite(kBase) THEN kBase
    ELSE RDiv(Num(8), FMin(h.x, FMin(h.y, h.z)))

\* lines 139-143: the new weight of the face with normal nrm
adjust(w, nrm, comShift, k) ==
    LET out == XMul(w, exp(RMul(Neg(k), dot(comShift, nrm))))
    IN  IF RLt(out, Num(0)) THEN Num(0) ELSE out

\* lines 138-148 for the clamped bubble eb
adjusted(baseWeights, eb, kBase, die) ==
    LET comShift == comShiftOf(alphaOf(eb.radius, die), eb.offset)
        k == kOf(kBase, halfOf(die))
        newWeights == [f \in 1..6 |-> adjust(baseWeights[f], FACE_NORMS[f], comShift, k)]
    IN  IF RLt(Num(0), XSum(newWeights))
        THEN [ok |-> TRUE, val |-> newWeights, err |-> "", same |-> FALSE]
        ELSE [ok |-> TRUE, val |-> baseWeights, err |-> "", same |-> TRUE]

\* mutant: only an omitted bubble is skipped
bubbleOffUndefinedOnly(bubble) == bubble = Undefined

\* line 95: !bubble?.enabled
bubbleOff(bubble) == bubble = Undefined \/ ~bubble.enabled

\* mutant: a bubble clamped to radius 0 is applied like any other
applyClampedAlways(baseWeights, eb, kBase, die) == adjusted(baseWeights, eb, kBase, die)

\* lines 113-148
applyClamped(baseWeights, eb, kBase, die) ==
    IF RLeq(eb.radius, Num(0))
    THEN [ok |-> TRUE, val |-> baseWeights, err |-> "", same |-> TRUE]
    ELSE adjusted(baseWeights, eb, kBase, die)

\* the result, with the array and the bubble passed as the call leaves them
\* (bubble is handed to clampBubbleToDie on line 114)
applyBubblePhysics(baseWeights, bubble, kBase, die) ==
    IF bubbleOff(bubble) \/ Len(baseWeights) # 6
    THEN [ok |-> TRUE, val |-> baseWeights, err |-> "", same |-> TRUE,
          arg |-> baseWeights, bubble |-> bubble]
    ELSE IF checkBaseWeights(baseWeights, 1) # ""
    THEN [ok |-> FALSE, val |-> <<>>, err |-> checkBaseWeights(baseWeights, 1),
          same |-> FALSE, arg |-> baseWeights, bubble |-> bubble]
    ELSE LET c == clampBubbleToDie(bubble, cleanDie(die))
             r == applyClamped(baseWeights, c.val, kBase, cleanDie(die))
         IN  [ok |-> r.ok, val |-> r.val, err |-> r.err, same |-> r.same,
              arg |-> baseWeights, bubble |-> c.arg]

(***************************************************************************)
(* weightsFromDimensions (die.ts 243-269)                                  *)
(***************************************************************************)
\* mutant: faces 1 and 2 take each other's area
facesSwapped(areaXZ, areaYZ, areaXY) ==
    <<areaYZ, areaXZ, areaXY, areaXY, areaXZ, areaYZ>>

\* lines 261-268: the areas in face order
faces1to6(areaXZ, areaYZ, areaXY) ==
    <<areaXZ, areaYZ, areaXY, areaXY, areaYZ, areaXZ>>

\* lines 249-253
clean(dimensions) ==
    [lx |-> FMax(dimensions.lx, MinDim),
     ly |-> FMax(dimensions.ly, MinDim),
     lz |-> FMax(dimensions.lz, MinDim)]

weightsFromDimensions(dimensions, exponent) ==
    IF ~IsFinite(exponent) THEN Throw("exponent must be a finite number.")
    ELSE LET c == clean(dimensions)
         IN  Ok(faces1to6(pow(XMul(c.lx, c.lz), exponent),
                          pow(XMul(c.ly, c.lz), exponent),
                          pow(XMul(c.lx, c.ly), exponent)))

(***************************************************************************)
(* dimensionsFromWeights (die.ts 272-310)                                  *)
(***************************************************************************)
\* the validation loop of lines 283-286, from entry k on
RECURSIVE checkInvertible(_, _)
checkInvertible(weights, k) ==
    IF k > Len(weights) THEN ""
    ELSE IF ~IsFinite(weights[k]) THEN "weights must contain finite numbers."
    ELSE IF RLeq(weights[k], Num(0)) THEN "weights must be > 0 to invert into dimensions."
    ELSE checkInvertible(weights, k + 1)

\* lines 297-299: the area recovered from the weights of two opposite faces
areaFrom(wa, wb, exponent) ==
    XSqrt(XMul(pow(wa, RDiv(Num(1), exponent)), pow(wb, RDiv(Num(1), exponent))))

\* mutant: ly and lz are taken from each other's area
dimsFromSwapped(lx, areaXY, areaXZ) ==
    [lx |-> FMax(lx, MinDim),
     ly |-> FMax(XDiv(areaXZ, lx), MinDim),
     lz |-> FMax(XDiv(areaXY, lx), MinDim)]

\* lines 302-309 for the lx of line 301
dimsFrom(lx, areaXY, areaXZ) ==
    [lx |-> FMax(lx, MinDim),
     ly |-> FMax(XDiv(areaXY, lx), MinDim),
     lz |-> FMax(XDiv(areaXZ, lx), MinDim)]

\* lines 301-309
solve(areaXZ, areaYZ, areaXY) ==
    dimsFrom(XSqrt(XDiv(XMul(areaXY, areaXZ), areaYZ)), areaXY, areaXZ)

\* line 279
badExponent(exponent) == ~IsFinite(exponent) \/ exponent = Num(0)

dimensionsFromWeights(weights, exponent) ==
    IF Len(weights) # 6 THEN Throw("weights must be an array of length 6.")
    ELSE IF badExponent(exponent) THEN Throw("exponent must be a finite nonzero number.")
    ELSE IF checkInvertible(weights, 1) # "" THEN Throw(checkInvertible(weights, 1))
    ELSE Ok(solve(areaFrom(weights[1], weights[6], exponent),
                  areaFrom(weights[2], weights[5], exponent),
                  areaFrom(weights[3], weights[4], exponent)))

(***************************************************************************)
(* Inputs.                                                                 *)
(***************************************************************************)
DefaultSampleStep == 10

\* the initial value of nRolls (page.tsx 31)
InitialRolls == 1000

\* entries a caller may put in a weight vector: valid, negative, non-finite
WeightVals == {Num(0), Num(1), Num(2), Num(4), Num(-1), NaN}

Vectors == UNION {[1..l -> WeightVals] : l \in 0..MaxLen}

\* the weight vectors passed to simulateRolls
SimWeightVals == {Num(0), Num(1), Num(2), Num(-1), NaN}

SimVectors == UNION {[1..l -> SimWeightVals] : l \in 0..MaxFaces}

NArgs == {NaN, PosInf, Num(-5), Num(0), Rat(1, 2), Rat(5, 2)}
            \cup {Num(k) : k \in 1..MaxN}

StepArgs == {NaN, Num(0), Num(-1), Rat(1, 2), Rat(3, 2), Num(DefaultSampleStep)}
            \cup {Num(k) : k \in 1..MaxStep}

\* the probability vectors passed to rollFromProbs
ProbVals == {Num(0), Num(1), Rat(1, 2), Round(Rat(1, 3)), Num(-1), NaN}

ProbVectors == UNION {[1..l -> ProbVals] : l \in 0..MaxFaces}

\* DEFAULT_BUBBLE (types/bubble)
DEFAULT_BUBBLE ==
    [enabled |-> FALSE,
     offset |-> [x |-> Num(0), y |-> Num(0), z |-> Num(0)],
     radius |-> Round(Rat(1, 10))]

\* INITIAL_WEIGHTS (page.tsx 15)
INITIAL_WEIGHTS == <<Num(1), Num(1), Num(1), Num(1), Num(1), Num(1)>>

\* INITIAL_DIMENSIONS (page.tsx 16), also the default die of applyBubblePhysics
UnitDie == [lx |-> Num(1), ly |-> Num(1), lz |-> Num(1)]

\* the bubbles and dies passed to clampBubbleToDie: radii and offsets inside,
\* on and outside the box, dimensions below the 0.01 floor
ClampBubbles ==
    [enabled : BOOLEAN,
     radius : {Num(-1), Num(0), Rat(1, 8), Rat(1, 2), Rat(63, 64), Num(2)},
     offset : [x : {Num(0), Rat(33, 1024), Rat(3, 8), Rat(-1, 2), Num(-2)},
               y : {Num(0), Rat(1, 4), Rat(33, 64), Rat(-1, 1024)},
               z : {Num(0), Num(1)}]]

ClampDice ==
    [lx : {Num(0), Num(1), Num(2)},
     ly : {Num(1), Rat(3, 2), Rat(1, 128)},
     lz : {Num(1), Num(2)}]

\* the arguments of applyBubblePhysics
BaseVectors ==
    { <<Num(1), Num(1), Num(1), Num(1), Num(1), Num(1)>>,
      <<Num(1), Num(2), Num(0), Num(0), Num(2), Num(4)>>,
      <<Num(0), Num(0), Num(0), Num(0), Num(0), Num(0)>>,
      <<Num(1), Num(1), Num(-1), Num(1), Num(1), Num(1)>>,
      <<Num(1), Num(1), Num(1), Num(1), NaN, Num(-1)>>,
      <<Num(1), Num(-1), NaN>>,
      <<>> }

ApplyBubbles ==
    {Undefined} \cup
    [enabled : BOOLEAN,
     radius : {Num(-1), Num(0), Rat(1, 64), Rat(1, 4), Num(1)},
     offset : [x : {Num(0), Rat(1, 8), Rat(-1, 2)},
               y : {Num(0), Rat(1, 4), Num(1)},
               z : {Num(0), Rat(-1, 8)}]]

ApplyDice == [lx : {Num(1), Num(2)}, ly : {Num(1), Rat(1, 2)}, lz : {Num(1)}]

\* kBase omitted, zero, moderate, negative, and large enough for Math.exp to
\* overflow
KBases == {Undefined, Num(0), Num(1), Num(-1), Num(4096)}

\* the arguments of the dimension converter; Huge * Huge overflows and
\* Small * Small underflows
Huge == Num(2 ^ (MaxExp \div 2 + 1))
Small == Rat(1, 2 ^ (MaxExp \div 2 + 1))

ConvDims ==
    [lx : {Num(-1), Num(0), Rat(1, 128), Num(1), Num(2), Num(3)},
     ly : {Rat(1, 2), Num(1), Num(2)},
     lz : {Num(1), Rat(3, 2)}]

Exponents == {Num(1), Num(2), Rat(1, 2), Num(-1), Num(0), NaN, PosInf}

InvWeightVals == {Num(1), Num(2), Huge, Small, Num(0), Num(-1), NaN, PosInf}

\* vectors of six entries taking two values, and vectors of other lengths
InvVectors ==
    {[k \in 1..6 |-> IF k \in S THEN a ELSE b] :
        S \in SUBSET (1..6), a \in InvWeightVals, b \in {Num(1), Num(2)}}
    \cup {<<>>, <<Num(1), Num(1), Num(1)>>,
          <<Num(1), Num(1), Num(1), Num(1), Num(1), Num(1), Num(1)>>}

\* values of Math.random(): [0, 1)
UVals == {Round(Rat(k, UDen)) : k \in 0..(UDen - 1)}

(***************************************************************************)
(* State: the frame of the engine call in progress or last completed.      *)
(***************************************************************************)
VARIABLES
    pc,          \* "idle", "loop" (inside simulateRolls' for loop), "done", "error"
    op,          \* the exported function called
    weights,     \* the vector argument (weights / probs)
    nArg,        \* simulateRolls: n as passed
    stepArg,     \* simulateRolls: sampleStep as passed
    n,           \* simulateRolls: n after Math.floor
    sampleStep,  \* simulateRolls: sampleStep after Math.floor
    i,           \* simulateRolls: loop counter
    counts,      \* simulateRolls: per-face tallies
    sumValues,   \* simulateRolls: sum of face values drawn
    runningMean, \* simulateRolls: recorded partial means
    probs,       \* simulateRolls: normalizeWeights(weights)
    cdf,         \* simulateRolls: buildCDF(probs); invBySeqSearch: its argument
    relFreq,     \* simulateRolls: counts / n, set on return
    u,           \* the uniform value of the last draw / invBySeqSearch's argument
    ret,         \* vector returned by normalizeWeights / buildCDF
    idx,         \* index returned by the last invBySeqSearch
    err,         \* message of the Error thrown, "" if none
    draws,       \* values taken from Math.random() by the call
    faces,       \* history: the indices drawn by the call, in order
    recordedAt,  \* history: for each runningMean entry, the draw after which it was pushed
    bubble,      \* the bubble argument, as the call leaves the caller's object
    die,         \* the die / dimensions argument
    kBase,       \* applyBubblePhysics: kBase as passed
    exponent,    \* the exponent argument of the dimension converter
    retBubble,   \* the BubbleConfig returned by clampBubbleToDie
    retDims,     \* the dimensions returned by dimensionsFromWeights
    aliased,     \* whether the object returned is an argument object itself
    passed,      \* history: the weights, bubble and die arguments as they were passed
    calls,       \* history: number of calls made in a sequence of dependent calls
    mode,        \* page state: "weights" or "dimensions"
    dimensions,  \* page state
    pageBubble,  \* page state: bubble
    effectDims,  \* page: the dieDims for which the effect of lines 62-66 last ran
    pageWeights, \* page state: weights
    fixedWeights, \* page state
    nRolls,      \* page state
    pageCounts,  \* page state: counts, null modelled as <<>>
    pageRelFreq, \* page state: relFreq, null modelled as <<>>
    pageProbs,   \* page state: probs, null modelled as <<>>
    pageRunningMean, \* page state: runningMean, null modelled as <<>>
    error,       \* page state: the message shown, null modelled as ""
    isSimulating, \* page state
    simPc,       \* handleSimulate: "none", or "awaiting" the animation frame
    simWeights,  \* handleSimulate: currentWeights of the render that was clicked
    simN,        \* handleSimulate: nRolls of the render that was clicked
    threw,       \* history: whether the last simulateRolls of the page threw
    recordedFor  \* history: recordedAt of the call that returned pageRunningMean

\* the frame of the bubble and converter calls
gvars == <<bubble, die, kBase, exponent, retBubble, retDims, aliased, calls>>

\* the state of the page that takes part in a simulation
svars == <<pageWeights, fixedWeights, nRolls, pageCounts, pageRelFreq, pageProbs,
           pageRunningMean, error, isSimulating, simPc, simWeights, simN, threw,
           recordedFor>>

\* the state of the page
pvars == <<mode, dimensions, pageBubble, effectDims, svars>>

vars == <<pc, op, weights, nArg, stepArg, n, sampleStep, i, counts, sumValues,
          runningMean, probs, cdf, relFreq, u, ret, idx, err, draws, faces,
          recordedAt, passed, gvars, pvars>>

\* the arguments of a call as they were passed
Args(w, b, d) == [weights |-> w, bubble |-> b, die |-> d]

\* a fresh call frame: every local of the previous call is gone
Fresh ==
    /\ nArg' = NaN /\ stepArg' = NaN /\ n' = 0 /\ sampleStep' = 0
    /\ i' = 0 /\ counts' = <<>> /\ sumValues' = 0 /\ runningMean' = <<>>
    /\ probs' = <<>> /\ relFreq' = <<>>
    /\ draws' = 0 /\ faces' = <<>> /\ recordedAt' = <<>>

Init ==
    /\ pc = "idle" /\ op = "none" /\ weights = <<>>
    /\ nArg = NaN /\ stepArg = NaN /\ n = 0 /\ sampleStep = 0
    /\ i = 0 /\ counts = <<>> /\ sumValues = 0 /\ runningMean = <<>>
    /\ probs = <<>> /\ cdf = <<>> /\ relFreq = <<>>
    /\ u = Num(0) /\ ret = <<>> /\ idx = 0 /\ err = ""
    /\ draws = 0 /\ faces = <<>> /\ recordedAt = <<>>
    /\ bubble = Undefined /\ die = UnitDie /\ kBase = Undefined /\ exponent = Num(1)
    /\ retBubble = Undefined /\ retDims = UnitDie /\ aliased = FALSE
    /\ passed = Args(<<>>, Undefined, UnitDie) /\ calls = 0
    /\ mode = "weights" /\ dimensions = UnitDie /\ pageBubble = DEFAULT_BUBBLE
    /\ effectDims = UnitDie
    /\ pageWeights = INITIAL_WEIGHTS /\ fixedWeights = INITIAL_WEIGHTS
    /\ nRolls = Num(InitialRolls)
    /\ pageCounts = <<>> /\ pageRelFreq = <<>> /\ pageProbs = <<>>
    /\ pageRunningMean = <<>>
    /\ error = "" /\ isSimulating = FALSE
    /\ simPc = "none" /\ simWeights = <<>> /\ simN = Num(0)
    /\ threw = FALSE /\ recordedFor = <<>>

\* The exported functions keep no state between calls (every local is created
\* afresh by the call), so a behaviour is one call, from its arguments to its
\* return or throw.
CanCall == pc = "idle"

(***************************************************************************)
(* normalizeWeights, buildCDF, invBySeqSearch called on their own.         *)
(***************************************************************************)
CallNormalizeWeights ==
    /\ CanCall
    /\ \E w \in Vectors :
         LET r == normalizeWeights(w)
         IN  /\ pc' = IF r.ok THEN "done" ELSE "error"
             /\ ret' = r.val
             /\ err' = r.err
             /\ weights' = w /\ passed' = Args(w, Undefined, UnitDie)
    /\ op' = "normalizeWeights"
    /\ cdf' = <<>> /\ u' = Num(0) /\ idx' = 0
    /\ Fresh
    /\ UNCHANGED <<gvars, pvars>>

CallBuildCDF ==
    /\ CanCall
    /\ \E w \in Vectors :
         LET r == buildCDF(w)
         IN  /\ pc' = IF r.ok THEN "done" ELSE "error"
             /\ ret' = r.val
             /\ err' = r.err
             /\ weights' = w /\ passed' = Args(w, Undefined, UnitDie)
    /\ op' = "buildCDF"
    /\ cdf' = <<>> /\ u' = Num(0) /\ idx' = 0
    /\ Fresh
    /\ UNCHANGED <<gvars, pvars>>

\* invBySeqSearch on the cdf that buildCDF returns for w
CallInvBySeqSearch ==
    /\ CanCall
    /\ \E w \in Vectors, uu \in UVals :
         /\ buildCDF(w).ok
         /\ weights' = w /\ passed' = Args(w, Undefined, UnitDie)
         /\ cdf' = buildCDF(w).val
         /\ u' = uu
         /\ idx' = invBySeqSearch(buildCDF(w).val, uu)
    /\ pc' = "done" /\ op' = "invBySeqSearch"
    /\ ret' = <<>> /\ err' = ""
    /\ Fresh
    /\ UNCHANGED <<gvars, pvars>>

\* rollFromProbs on its own; idx is the index returned
CallRollFromProbs ==
    /\ CanCall
    /\ \E w \in ProbVectors, uu \in UVals :
         LET r == rollFromProbs(w, uu)
         IN  /\ pc' = IF r.ok THEN "done" ELSE "error"
             /\ idx' = IF r.ok THEN r.val ELSE 0
             /\ err' = r.err
             /\ weights' = w /\ passed' = Args(w, Undefined, UnitDie)
             /\ u' = uu
             /\ draws' = IF r.ok THEN 1 ELSE 0
    /\ op' = "rollFromProbs"
    /\ cdf' = <<>> /\ ret' = <<>>
    /\ nArg' = NaN /\ stepArg' = NaN /\ n' = 0 /\ sampleStep' = 0
    /\ i' = 0 /\ counts' = <<>> /\ sumValues' = 0 /\ runningMean' = <<>>
    /\ probs' = <<>> /\ relFreq' = <<>>
    /\ faces' = <<>> /\ recordedAt' = <<>>
    /\ UNCHANGED <<gvars, pvars>>

(***************************************************************************)
(* simulateRolls (die.ts 203-240)                                          *)
(***************************************************************************)
\* mutant: the bound on n is tested with < instead of <=
simulateEntryStrict(w, na, sa) ==
    IF ~IsFinite(na) \/ RLt(na, Num(0)) THEN Throw("n must be a positive integer.")
    ELSE IF ~IsFinite(sa) \/ RLeq(sa, Num(0)) THEN Throw("sampleStep must be >= 1.")
    ELSE LET p == normalizeWeights(w)
         IN  IF ~p.ok THEN p
             ELSE LET c == buildCDF(p.val)
                  IN  IF ~c.ok THEN c
                      ELSE Ok([n |-> Floor(na), sampleStep |-> Floor(sa),
                               probs |-> p.val, cdf |-> c.val])

\* lines 204-219: argument checks, flooring, normalisation, CDF
simulateEntry(w, na, sa) ==
    IF ~IsFinite(na) \/ RLeq(na, Num(0)) THEN Throw("n must be a positive integer.")
    ELSE IF ~IsFinite(sa) \/ RLeq(sa, Num(0)) THEN Throw("sampleStep must be >= 1.")
    ELSE LET p == normalizeWeights(w)
         IN  IF ~p.ok THEN p
             ELSE LET c == buildCDF(p.val)
                  IN  IF ~c.ok THEN c
                      ELSE Ok([n |-> Floor(na), sampleStep |-> Floor(sa),
                               probs |-> p.val, cdf |-> c.val])

CallSimulateRolls ==
    /\ CanCall
    /\ \E w \in SimVectors, na \in NArgs, sa \in StepArgs :
         /\ weights' = w /\ passed' = Args(w, Undefined, UnitDie) /\ nArg' = na /\ stepArg' = sa
         /\ LET e == simulateEntry(w, na, sa)
            IN  IF e.ok
                THEN /\ pc' = "loop" /\ err' = ""
                     /\ n' = e.val.n /\ sampleStep' = e.val.sampleStep
                     /\ probs' = e.val.probs /\ cdf' = e.val.cdf
                     /\ counts' = [k \in 1..Len(w) |-> 0]
                ELSE /\ pc' = "error" /\ err' = e.err
                     /\ n' = 0 /\ sampleStep' = 0
                     /\ probs' = <<>> /\ cdf' = <<>> /\ counts' = <<>>
    /\ op' = "simulateRolls"
    /\ i' = 0 /\ sumValues' = 0 /\ runningMean' = <<>> /\ relFreq' = <<>>
    /\ u' = Num(0) /\ ret' = <<>> /\ idx' = 0
    /\ draws' = 0 /\ faces' = <<>> /\ recordedAt' = <<>>
    /\ UNCHANGED <<gvars, pvars>>

\* mutant: the loop runs once too often
loopCondOffByOne(ii, nn) == ii <= nn

\* the for loop's condition (line 224)
loopCond(ii, nn) == ii < nn

\* mutant: the stride is tested on the 0-based counter
sampleNowZeroBased(ii, nn, step) == ModIsZero(ii, step) \/ ii = nn - 1

\* should draw i+1 be sampled into runningMean (line 231)
sampleNow(ii, nn, step) == ModIsZero(ii + 1, step) \/ ii = nn - 1

\* mutant: the face value added to the sum is the 0-based index
faceValueZeroBased(k) == k

\* the face value of index k (line 229: idx + 1)
faceValue(k) == k + 1

\* one iteration of the loop, lines 224-234, with Math.random() = uu
Draw ==
    /\ pc = "loop" /\ loopCond(i, n)
    /\ \E uu \in UVals :
         LET k == invBySeqSearch(cdf, uu)
         IN  /\ u' = uu
             /\ idx' = k
             /\ counts' = [counts EXCEPT ![k + 1] = @ + 1]
             /\ sumValues' = sumValues + faceValue(k)
             /\ faces' = Append(faces, k)
             /\ IF sampleNow(i, n, sampleStep)
                THEN /\ runningMean' = Append(runningMean,
                                             RDiv(Num(sumValues + faceValue(k)), Num(i + 1)))
                     /\ recordedAt' = Append(recordedAt, i + 1)
                ELSE UNCHANGED <<runningMean, recordedAt>>
    /\ draws' = draws + 1
    /\ i' = i + 1
    /\ UNCHANGED <<pc, op, weights, nArg, stepArg, n, sampleStep, probs, cdf,
                   relFreq, ret, err>>
    /\ UNCHANGED <<passed, gvars, pvars>>

\* loop exit, lines 236-239: relFreq and the returned record
Return ==
    /\ pc = "loop" /\ ~loopCond(i, n)
    /\ relFreq' = [k \in 1..Len(counts) |-> RDiv(Num(counts[k]), Num(n))]
    /\ pc' = "done"
    /\ UNCHANGED <<op, weights, nArg, stepArg, n, sampleStep, i, counts, sumValues,
                   runningMean, probs, cdf, u, ret, idx, err, draws, faces,
                   recordedAt>>
    /\ UNCHANGED <<passed, gvars, pvars>>

(***************************************************************************)
(* The bubble functions and the dimension converter, called on their own.  *)
(***************************************************************************)
\* the frame variables of the simulation engine, unused by these calls
EngineIdle ==
    /\ nArg' = NaN /\ stepArg' = NaN /\ n' = 0 /\ sampleStep' = 0
    /\ i' = 0 /\ counts' = <<>> /\ sumValues' = 0 /\ runningMean' = <<>>
    /\ probs' = <<>> /\ cdf' = <<>> /\ relFreq' = <<>>
    /\ u' = Num(0) /\ idx' = 0
    /\ draws' = 0 /\ faces' = <<>> /\ recordedAt' = <<>>
    /\ UNCHANGED pvars

CallClampBubbleToDie ==
    /\ CanCall
    /\ \E b \in ClampBubbles, d \in ClampDice :
       \E r \in {clampBubbleToDie(b, d)} :
         /\ retBubble' = r.val /\ aliased' = r.same
         /\ bubble' = r.arg /\ die' = d
         /\ passed' = Args(<<>>, b, d)
    /\ pc' = "done" /\ op' = "clampBubbleToDie" /\ err' = "" /\ calls' = 1
    /\ weights' = <<>> /\ ret' = <<>>
    /\ UNCHANGED <<kBase, exponent, retDims>>
    /\ EngineIdle

\* the bubble returned is passed to clampBubbleToDie again, with the same die
ClampAgain ==
    /\ pc = "done" /\ op = "clampBubbleToDie" /\ calls = 1
    /\ \E r \in {clampBubbleToDie(retBubble, die)} :
         /\ retBubble' = r.val /\ aliased' = r.same
         /\ bubble' = r.arg
         /\ passed' = Args(<<>>, retBubble, die)
    /\ calls' = 2
    /\ UNCHANGED <<pc, op, err, weights, ret, die, kBase, exponent, retDims>>
    /\ EngineIdle

CallApplyBubblePhysics ==
    /\ CanCall
    /\ \E w \in BaseVectors, b \in ApplyBubbles, k \in KBases, d \in ApplyDice :
       \E r \in {applyBubblePhysics(w, b, k, d)} :
         /\ pc' = IF r.ok THEN "done" ELSE "error"
         /\ ret' = r.val /\ err' = r.err /\ aliased' = r.same
         /\ weights' = r.arg /\ bubble' = r.bubble /\ die' = d /\ kBase' = k
         /\ passed' = Args(w, b, d)
    /\ op' = "applyBubblePhysics" /\ calls' = 1
    /\ UNCHANGED <<exponent, retBubble, retDims>>
    /\ EngineIdle

\* die holds the dimensions argument
CallWeightsFromDimensions ==
    /\ CanCall
    /\ \E d \in ConvDims, e \in Exponents :
       \E r \in {weightsFromDimensions(d, e)} :
         /\ pc' = IF r.ok THEN "done" ELSE "error"
         /\ ret' = r.val /\ err' = r.err
         /\ die' = d /\ exponent' = e
         /\ passed' = Args(<<>>, Undefined, d)
    /\ op' = "weightsFromDimensions" /\ calls' = 1
    /\ weights' = <<>> /\ aliased' = FALSE
    /\ UNCHANGED <<bubble, kBase, retBubble, retDims>>
    /\ EngineIdle

CallDimensionsFromWeights ==
    /\ CanCall
    /\ \E w \in InvVectors, e \in Exponents :
       \E r \in {dimensionsFromWeights(w, e)} :
         /\ pc' = IF r.ok THEN "done" ELSE "error"
         /\ retDims' = IF r.ok THEN r.val ELSE UnitDie
         /\ err' = r.err
         /\ weights' = w /\ exponent' = e
         /\ passed' = Args(w, Undefined, UnitDie)
    /\ op' = "dimensionsFromWeights" /\ calls' = 1
    /\ ret' = <<>> /\ aliased' = FALSE
    /\ UNCHANGED <<bubble, die, kBase, retBubble>>
    /\ EngineIdle

\* the weights returned by weightsFromDimensions are passed to
\* dimensionsFromWeights with the same exponent; die keeps the dimensions
InvertResult ==
    /\ pc = "done" /\ op = "weightsFromDimensions" /\ calls = 1
    /\ \E r \in {dimensionsFromWeights(ret, exponent)} :
         /\ pc' = IF r.ok THEN "done" ELSE "error"
         /\ retDims' = IF r.ok THEN r.val ELSE UnitDie
         /\ err' = r.err
    /\ weights' = ret /\ passed' = Args(ret, Undefined, die)
    /\ op' = "dimensionsFromWeights" /\ calls' = 2
    /\ UNCHANGED <<ret, aliased, bubble, die, kBase, exponent, retBubble>>
    /\ EngineIdle

GeomNext ==
    \/ CallClampBubbleToDie
    \/ ClampAgain
    \/ CallApplyBubblePhysics
    \/ CallWeightsFromDimensions
    \/ CallDimensionsFromWeights
    \/ InvertResult

GeomSpec == Init /\ [][GeomNext]_vars

\* the calls of the engine together with those of the bubble functions
FrameSpec == Init /\ [][GeomNext \/ CallNormalizeWeights \/ CallSimulateRolls
                            \/ Draw \/ Return]_vars

(***************************************************************************)
(* The page (page.tsx): the mode, the dimensions and the bubble, with the  *)
(* handlers that change them and the effect that re-clamps the bubble.     *)
(* A number field delivers Number(e.target.value), a finite number.        *)
(***************************************************************************)
\* mutant: the stored dimensions are used in both modes
dieDimsStored(m, dims) == dims

\* line 50
dieDimsOf(m, dims) == IF m = "dimensions" THEN dims ELSE UnitDie

dieDims == dieDimsOf(mode, dimensions)

\* the effect of lines 62-66 is due: its dependencies changed in the last render
EffectPending == dieDims # effectDims

\* values typed into the fields
DimInputs ==
    [lx |-> {Num(0), Num(1), Num(2)}, ly |-> {Rat(1, 2), Num(1)}, lz |-> {Num(1), Num(2)}]

RadiusInputs == {Num(-1), Num(0), Rat(1, 8), Rat(1, 2), Num(2)}

OffsetInputs ==
    [x |-> {Num(0), Rat(33, 1024), Rat(3, 8), Num(-2)}, y |-> {Num(0), Rat(1, 4)},
     z |-> {Num(0), Num(1)}]

\* the state of the engine calls, which the page actions here do not use
evars == <<pc, op, weights, nArg, stepArg, n, sampleStep, i, counts, sumValues,
           runningMean, probs, cdf, relFreq, u, ret, idx, err, draws, faces,
           recordedAt, passed, gvars, svars>>

\* ModeToggle (lines 314-334): setMode
SetMode ==
    /\ ~EffectPending
    /\ \E m \in {"weights", "dimensions"} : mode' = m
    /\ UNCHANGED <<dimensions, pageBubble, effectDims, evars>>

\* handleDimensionChange (lines 144-152); the panel exists in dimensions mode
HandleDimensionChange ==
    /\ ~EffectPending /\ mode = "dimensions"
    /\ \E key \in {"lx", "ly", "lz"} : \E value \in DimInputs[key] :
         dimensions' = [dimensions EXCEPT ![key] = FMax(value, MinDim)]
    /\ UNCHANGED <<mode, pageBubble, effectDims, evars>>

\* the checkbox of BubblePanel (lines 456-465)
ToggleBubble ==
    /\ ~EffectPending
    /\ \E checked \in BOOLEAN :
         pageBubble' = clampBubbleToDie([pageBubble EXCEPT !.enabled = checked],
                                        dieDims).val
    /\ UNCHANGED <<mode, dimensions, effectDims, evars>>

\* handleBubbleSizeChange (lines 154-156); the field exists while enabled
HandleBubbleSizeChange ==
    /\ ~EffectPending /\ pageBubble.enabled
    /\ \E value \in RadiusInputs :
         pageBubble' = clampBubbleToDie([pageBubble EXCEPT !.radius = value],
                                        dieDims).val
    /\ UNCHANGED <<mode, dimensions, effectDims, evars>>

\* handleBubbleOffsetChange (lines 158-168)
HandleBubbleOffsetChange ==
    /\ ~EffectPending /\ pageBubble.enabled
    /\ \E axis \in {"x", "y", "z"} : \E value \in OffsetInputs[axis] :
         pageBubble' = clampBubbleToDie([pageBubble EXCEPT !.offset[axis] = value],
                                        dieDims).val
    /\ UNCHANGED <<mode, dimensions, effectDims, evars>>

\* the effect of lines 62-66, run after the render that changed dieDims
DimsEffect ==
    /\ EffectPending
    /\ pageBubble' = clampBubbleToDie(pageBubble, dieDims).val
    /\ effectDims' = dieDims
    /\ UNCHANGED <<mode, dimensions, evars>>

PageNext ==
    \/ SetMode
    \/ HandleDimensionChange
    \/ ToggleBubble
    \/ HandleBubbleSizeChange
    \/ HandleBubbleOffsetChange
    \/ DimsEffect

PageSpec == Init /\ [][PageNext]_vars

(***************************************************************************)
(* The page (page.tsx): the Simulate button.  handleSimulate (lines        *)
(* 170-195) runs in two steps, up to the await of the animation frame and  *)
(* from there to its end; the second step calls simulateRolls, modelled    *)
(* here as a function of the values rnd that Math.random() returns.        *)
(***************************************************************************)
\* one iteration of the loop of simulateRolls (lines 224-234) that draws the
\* index k, on the locals st; at is a history of the draws after which a mean
\* was pushed
simStep(e, st, k) ==
    [i |-> st.i + 1,
     counts |-> [st.counts EXCEPT ![k + 1] = @ + 1],
     sumValues |-> st.sumValues + faceValue(k),
     runningMean |-> IF sampleNow(st.i, e.n, e.sampleStep)
                     THEN Append(st.runningMean,
                                 RDiv(Num(st.sumValues + faceValue(k)), Num(st.i + 1)))
                     ELSE st.runningMean,
     at |-> IF sampleNow(st.i, e.n, e.sampleStep) THEN Append(st.at, st.i + 1)
            ELSE st.at]

\* the loop from the locals st on, and the record returned (lines 236-239)
RECURSIVE simLoop(_, _, _)
simLoop(e, rnd, st) ==
    IF loopCond(st.i, e.n)
    THEN CHOOSE r \in {simLoop(e, rnd, s) :
                         s \in {simStep(e, st, k) :
                                  k \in {invBySeqSearch(e.cdf, rnd[st.i + 1])}}} : TRUE
    ELSE Ok([counts |-> st.counts,
             relFreq |-> [k \in 1..Len(st.counts) |-> RDiv(Num(st.counts[k]), Num(e.n))],
             probs |-> e.probs, runningMean |-> st.runningMean,
             sampleStep |-> e.sampleStep, recordedAt |-> st.at])

\* lines 211-221: the locals before the first iteration
simStart(w) ==
    [i |-> 0, counts |-> [k \in 1..Len(w) |-> 0], sumValues |-> 0,
     runningMean |-> <<>>, at |-> <<>>]

\* simulateRolls after the entry checks gave e
simulateFrom(e, w, rnd) ==
    IF e.ok
    THEN CHOOSE r \in {simLoop(v, rnd, s) : v \in {e.val}, s \in {simStart(w)}} : TRUE
    ELSE e

\* simulateRolls(weights, n, sampleStep) with Math.random() returning rnd[1],
\* rnd[2], ... in turn
simulateRolls(w, na, sa, rnd) ==
    CHOOSE r \in {simulateFrom(e, w, rnd) : e \in {simulateEntry(w, na, sa)}} : TRUE

\* DIMENSIONS_EXPONENT (line 17)
DIMENSIONS_EXPONENT == Num(1)

\* baseWeights (lines 57-60) and currentWeights (line 68) of the render
baseWeights ==
    IF mode = "weights" THEN pageWeights
    ELSE weightsFromDimensions(dimensions, DIMENSIONS_EXPONENT).val

currentWeights == applyBubblePhysics(baseWeights, pageBubble, Undefined, dieDims).val

\* Number(m.toFixed(4)) for m >= 0: the number nearest the decimal with four
\* digits nearest m
toFixed4(m) == Round(Rat((2 * m.n * 10000 + m.d) \div (2 * m.d), 10000))

\* the stride of meanData (lines 105-108)
meanStride(means, rolls) ==
    FMax(Num(1), Num(Floor(RDiv(rolls, FMax(Num(1), Num(Len(means)))))))

\* meanData (lines 103-113): the points of the running-mean chart
meanData ==
    [j \in 1..Len(pageRunningMean) |->
        [n |-> RMul(Num(j), meanStride(pageRunningMean, nRolls)),
         mean |-> toFixed4(pageRunningMean[j])]]

\* values typed into the weight field of the last face and into the
\* number-of-rolls field
WeightInputs == [index : {6}, value : {Num(0), Num(2), Num(-1)}]

RollInputs == {Num(0), Num(5), Num(12), Num(MaxRolls)}

\* the values Math.random() returns to a call that draws count times: always
\* the least or always the greatest value
RandomRuns(count) ==
    {[j \in 1..count |-> uu] : uu \in {Num(0), Round(Rat(UDen - 1, UDen))}}

\* the page state that a simulation leaves alone
bvars == <<mode, dimensions, pageBubble, effectDims>>

\* the frame of the engine calls
ovars == <<pc, op, weights, nArg, stepArg, n, sampleStep, i, counts, sumValues,
           runningMean, probs, cdf, relFreq, u, ret, idx, err, draws, faces,
           recordedAt, passed, gvars>>

\* handleWeightChange (lines 136-142); the grid exists in weights mode
HandleWeightChange ==
    /\ mode = "weights"
    /\ \E inp \in WeightInputs :
         pageWeights' = [pageWeights EXCEPT ![inp.index] = FMax(inp.value, Num(0))]
    /\ UNCHANGED <<fixedWeights, nRolls, pageCounts, pageRelFreq, pageProbs,
                   pageRunningMean, error, isSimulating, simPc, simWeights, simN,
                   threw, recordedFor, bvars, ovars>>

\* the number-of-rolls field (lines 226-231): setNRolls
SetNRolls ==
    /\ \E v \in RollInputs : nRolls' = v
    /\ UNCHANGED <<pageWeights, fixedWeights, pageCounts, pageRelFreq, pageProbs,
                   pageRunningMean, error, isSimulating, simPc, simWeights, simN,
                   threw, recordedFor, bvars, ovars>>

\* handleSimulate up to the await (lines 171-177); the button is disabled
\* while isSimulating (line 253).  The rest of the handler uses the
\* currentWeights and nRolls of the render that was clicked.
ClickSimulate ==
    /\ ~isSimulating /\ simPc = "none"
    /\ RLeq(nRolls, Num(MaxRolls))
    /\ error' = "" /\ isSimulating' = TRUE
    /\ simPc' = "awaiting" /\ simWeights' = currentWeights /\ simN' = nRolls
    /\ UNCHANGED <<pageWeights, fixedWeights, nRolls, pageCounts, pageRelFreq,
                   pageProbs, pageRunningMean, threw, recordedFor, bvars, ovars>>

\* mutant: isSimulating is reset at the end of the try block only
resetOnSuccessOnly(r) == ~r.ok

\* line 193: the finally block sets isSimulating to false; the value of
\* isSimulating after a call of simulateRolls with result r
simulatingAfter(r) == FALSE

\* the number of values a call simulateRolls(w, na) takes from Math.random()
drawsOf(na) == IF IsFinite(na) /\ RLt(Num(0), na) THEN Floor(na) ELSE 0

\* handleSimulate from the animation frame on (lines 179-194)
SimulateResumes ==
    /\ simPc = "awaiting"
    /\ \E rnd \in RandomRuns(drawsOf(simN)) :
       \E r \in {simulateRolls(simWeights, simN, Num(DefaultSampleStep), rnd)} :
         /\ fixedWeights' = simWeights
         /\ IF r.ok
            THEN /\ pageCounts' = r.val.counts /\ pageRelFreq' = r.val.relFreq
                 /\ pageProbs' = r.val.probs /\ pageRunningMean' = r.val.runningMean
                 /\ recordedFor' = r.val.recordedAt
                 /\ UNCHANGED error
            ELSE /\ error' = "An unexpected error occurred during the simulation."
                 /\ UNCHANGED <<pageCounts, pageRelFreq, pageProbs, pageRunningMean,
                                recordedFor>>
         /\ isSimulating' = simulatingAfter(r)
         /\ threw' = ~r.ok
    /\ simPc' = "none"
    /\ UNCHANGED <<pageWeights, nRolls, simWeights, simN, bvars, ovars>>

SimNext ==
    \/ HandleWeightChange
    \/ SetNRolls
    \/ ClickSimulate
    \/ SimulateResumes

\* the step of SimulateResumes as seen on simPc: it is possible exactly when
\* SimulateResumes is (whenever the handler awaits), and SimulateResumes is the
\* only action that takes it
FrameDelivered == simPc = "awaiting" /\ simPc' = "none"

\* the animation frame that handleSimulate awaits (lines 175-177) is eventually
\* delivered, and the handler then runs to its end
SimSpec == Init /\ [][SimNext]_vars /\ WF_simPc(FrameDelivered)

Next ==
    \/ CallNormalizeWeights
    \/ CallBuildCDF
    \/ CallInvBySeqSearch
    \/ CallRollFromProbs
    \/ CallSimulateRolls
    \/ Draw
    \/ Return

Spec == Init /\ [][Next]_vars

(***************************************************************************)
(* Vocabulary of the properties.                                           *)
(***************************************************************************)
IsInt(x) == x.d = 1

\* sum of an integer sequence
RECURSIVE ISum(_)
ISum(s) == IF s = <<>> THEN 0 ELSE ISum(SubSeq(s, 1, Len(s) - 1)) + s[Len(s)]

\* a non-empty vector of finite entries >= 0
ValidVec(w) ==
    /\ Len(w) > 0
    /\ \A k \in 1..Len(w) : IsFinite(w[k]) /\ RLeq(Num(0), w[k])

AllZero(w) == \A k \in 1..Len(w) : w[k] = Num(0)

\* the vector of l entries, each the number nearest 1/l
Uniform(l) == [k \in 1..l |-> Round(Rat(1, l))]

\* exact (unrounded) sum and distance of finite numbers
QAdd(a, b) == Rat(a.n * b.d + b.n * a.d, a.d * b.d)

RECURSIVE QSum(_)
QSum(s) == IF s = <<>> THEN Num(0) ELSE QAdd(QSum(SubSeq(s, 1, Len(s) - 1)), s[Len(s)])

QDist(a, b) == Rat(Abs(a.n * b.d - b.n * a.d), a.d * b.d)

\* the rounding tolerance for a sum of l rounded terms near 1: l units in the
\* last place (the spec's 1e-9, for doubles)
Tolerance(l) == Rat(l, 2 ^ (Precision - 1))

NonDecreasing(s) == \A k \in 1..(Len(s) - 1) : RLeq(s[k], s[k + 1])

SimCalled == op = "simulateRolls" /\ pc # "idle"
SimReturned == op = "simulateRolls" /\ pc = "done"

\* sum of the face values (1-based) of the first j draws
RECURSIVE FaceSum(_, _)
FaceSum(fs, j) == IF j = 0 THEN 0 ELSE FaceSum(fs, j - 1) + fs[j] + 1

\* sum over faces of (face value) * counts
RECURSIVE WeightedCount(_, _)
WeightedCount(cs, k) == IF k = 0 THEN 0 ELSE WeightedCount(cs, k - 1) + k * cs[k]

(***************************************************************************)
(* C1: every simulateRolls call that returns has performed exactly         *)
(* floor(n) draws, and the returned counts sum to exactly floor(n).        *)
(***************************************************************************)
C1_CountsSumToN ==
    SimReturned =>
        /\ RLeq(Num(draws), nArg) /\ RLt(nArg, Num(draws + 1))
        /\ Len(faces) = draws
        /\ ISum(counts) = draws

\* a returned call with a non-integer n and several draws
C1_Witness ==
    /\ SimReturned /\ nArg = Rat(5, 2) /\ draws = 2 /\ counts = <<1, 0, 1>>

(***************************************************************************)
(* C2: simulateRolls throws, performs no draw and returns nothing when n   *)
(* is non-finite or n <= 0, and when sampleStep = 0.                       *)
(***************************************************************************)
C2_RejectsBadN ==
    (SimCalled /\ (~IsFinite(nArg) \/ RLeq(nArg, Num(0)) \/ stepArg = Num(0))) =>
        /\ pc = "error"
        /\ err \in {"n must be a positive integer.", "sampleStep must be >= 1."}
        /\ draws = 0
        /\ counts = <<>> /\ relFreq = <<>> /\ runningMean = <<>>

\* sampleStep = 0 rejected although n and the weights are valid
C2_Witness ==
    /\ SimCalled /\ pc = "error" /\ stepArg = Num(0) /\ nArg = Num(2)
    /\ ValidVec(weights) /\ err = "sampleStep must be >= 1."

(***************************************************************************)
(* C3: simulateRolls throws for every sampleStep that is not finite or is  *)
(* less than 1, so a returned sampleStep is an integer >= 1.               *)
(* The code tests sampleStep <= 0 before flooring: 0 < sampleStep < 1 is   *)
(* accepted and floored to 0.                                              *)
(***************************************************************************)
C3_RejectsStepBelowOne ==
    /\ (SimCalled /\ (~IsFinite(stepArg) \/ RLt(stepArg, Num(1)))) => pc = "error"
    /\ SimReturned => sampleStep >= 1

(***************************************************************************)
(* C4: in every simulateRolls call that returns, runningMean is non-empty  *)
(* and its last entry is the mean of all draws, sum (i+1)*counts[i] / n.   *)
(* The code tests n <= 0 before flooring: 0 < n < 1 is accepted, floored   *)
(* to 0, and the call returns with an empty runningMean.                   *)
(***************************************************************************)
C4_EndsOnFinalMean ==
    SimReturned =>
        /\ Len(runningMean) > 0
        /\ runningMean[Len(runningMean)] =
              RDiv(Num(WeightedCount(counts, Len(counts))), Num(n))

(***************************************************************************)
(* C5: with integer n >= 1 and integer sampleStep >= 1, an entry is pushed *)
(* after draw j exactly when j is a multiple of sampleStep or j = n, once, *)
(* in draw order; the series ends with ceil(n / sampleStep) entries and    *)
(* the entry of draw j is (sum of the first j face values) / j.            *)
(***************************************************************************)
C5_Sampled(j) == j % sampleStep = 0 \/ j = n

C5_Mean(j) == RDiv(Num(FaceSum(faces, j)), Num(j))

C5_RunningMeanSchedule ==
    (op = "simulateRolls" /\ pc \in {"loop", "done"}
       /\ IsInt(nArg) /\ nArg.n >= 1 /\ IsInt(stepArg) /\ stepArg.n >= 1) =>
        /\ Len(runningMean) = Len(recordedAt)
        /\ {recordedAt[k] : k \in 1..Len(recordedAt)} = {j \in 1..i : C5_Sampled(j)}
        /\ \A k \in 1..(Len(recordedAt) - 1) : recordedAt[k] < recordedAt[k + 1]
        /\ \A k \in 1..Len(runningMean) :
              runningMean[k] = C5_Mean(recordedAt[k])
        /\ pc = "done" => Len(runningMean) = (n + sampleStep - 1) \div sampleStep

\* n not a multiple of the stride: entries after draws 2 and 3
C5_Witness ==
    /\ SimReturned /\ nArg = Num(3) /\ stepArg = Num(2)
    /\ faces = <<0, 1, 1>>
    /\ recordedAt = <<2, 3>> /\ runningMean = <<Rat(3, 2), Round(Rat(5, 3))>>

(***************************************************************************)
(* C6 as stated: for a non-empty vector of finite weights >= 0 with        *)
(* positive sum, normalizeWeights returns a vector of the same length with *)
(* entry i equal to weights[i] / sum; the entries sum to 1 and keep the    *)
(* inputs' order.  The quotients are rounded, so the sum is 1 only up to   *)
(* rounding.                                                               *)
(***************************************************************************)
C6_Case ==
    /\ op = "normalizeWeights" /\ pc # "idle" /\ ValidVec(weights)
    /\ RLt(Num(0), RSum(weights))

C6_Quotients ==
    /\ pc = "done"
    /\ Len(ret) = Len(weights)
    /\ \A k \in 1..Len(ret) : ret[k] = RDiv(weights[k], RSum(weights))
    /\ \A j, k \in 1..Len(ret) :
          RLeq(weights[j], weights[k]) => RLeq(ret[j], ret[k])

C7_ZeroWeightsUniform ==
    /\ (op = "normalizeWeights" /\ pc # "idle" /\ Len(weights) > 0 /\ AllZero(weights)) =>
          /\ pc = "done" /\ err = ""
          /\ ret = Uniform(Len(weights))
    /\ (SimCalled /\ Len(weights) > 0 /\ AllZero(weights)
          /\ IsFinite(nArg) /\ RLeq(Num(1), nArg)
          /\ IsFinite(stepArg) /\ RLeq(Num(1), stepArg)) =>
          /\ pc \in {"loop", "done"} /\ err = ""
          /\ probs = Uniform(Len(weights))
          /\ pc = "loop" => (i <= n /\ ENABLED (Draw \/ Return))
          /\ pc = "done" => (draws = n /\ ISum(counts) = n)

\* a simulation on three zero weights that returned after drawing two faces
C7_Witness ==
    /\ SimReturned /\ weights = <<Num(0), Num(0), Num(0)>>
    /\ probs = <<Round(Rat(1, 3)), Round(Rat(1, 3)), Round(Rat(1, 3))>>
    /\ n = 2 /\ counts = <<1, 0, 1>>

(***************************************************************************)
(* C8: normalizeWeights throws, returning no vector, when the input is     *)
(* empty or contains a negative or a non-finite entry.                     *)
(***************************************************************************)
C8_NormalizeRejects ==
    (op = "normalizeWeights" /\ pc # "idle"
       /\ (\/ Len(weights) = 0
           \/ \E k \in 1..Len(weights) :
                 ~IsFinite(weights[k]) \/ RLt(weights[k], Num(0)))) =>
        /\ pc = "error"
        /\ ret = <<>>
        /\ err \in {"Weights must be a non-empty array.",
                    "Weights must be finite numbers.", "Weights must be >= 0."}

\* a negative entry after valid ones
C8_Witness ==
    /\ op = "normalizeWeights" /\ pc = "error"
    /\ weights = <<Num(1), Num(2), Num(-1)>>
    /\ err = "Weights must be >= 0."

(***************************************************************************)
(* C9: for a valid vector buildCDF returns a sequence of the same length   *)
(* whose entry i is the sum of the normalized entries 0..i (the running    *)
(* sum the code accumulates; for the last entry, which is forced to 1, up  *)
(* to the rounding tolerance); it is non-decreasing and its last entry is  *)
(* exactly 1.                                                              *)
(* When rounding carries the running sum above 1 before the last entry,    *)
(* the forced final 1 is a step down.                                      *)
(***************************************************************************)
C9_CdfPartialSums ==
    (op = "buildCDF" /\ pc # "idle" /\ ValidVec(weights)) =>
        LET p == normalizeWeights(weights).val
        IN  /\ pc = "done"
            /\ Len(ret) = Len(weights)
            /\ \A k \in 1..(Len(ret) - 1) : ret[k] = RSum(SubSeq(p, 1, k))
            /\ RLeq(QDist(RSum(p), Num(1)), Tolerance(Len(p)))
            /\ ret[Len(ret)] = Num(1)
            /\ NonDecreasing(ret)

(***************************************************************************)
(* C10: for a cdf made by buildCDF and u in [0,1), invBySeqSearch returns  *)
(* the least index i with cdf[i] >= u (cdf[i-1] < u <= cdf[i], a tie going *)
(* to the lower index); the result is a valid index, and it is 0 for u = 0.*)
(***************************************************************************)
C10_Searched ==
    \/ op = "invBySeqSearch" /\ pc = "done"
    \/ op = "simulateRolls" /\ draws > 0

C10_LeastIndex ==
    C10_Searched =>
        /\ idx \in 0..(Len(cdf) - 1)
        /\ RLeq(u, cdf[idx + 1])
        /\ \A k \in 1..idx : RLt(cdf[k], u)
        /\ u = Num(0) => idx = 0

\* a tie: u equals the first of two equal-probability steps
C10_Witness ==
    /\ op = "invBySeqSearch" /\ pc = "done"
    /\ weights = <<Num(1), Num(1), Num(2)>>
    /\ cdf = <<Rat(1, 4), Rat(1, 2), Num(1)>>
    /\ u = Rat(1, 2) /\ idx = 1

(***************************************************************************)
(* C11: for every probs and every uniform value u, rollFromProbs with draw *)
(* u has the outcome of invBySeqSearch(buildCDF(probs), u): the same index *)
(* when both return, and a failure exactly when the other fails.           *)
(* rollFromProbs throws on a sum <= 0, where buildCDF falls back to the    *)
(* uniform distribution and the composition returns an index.              *)
(***************************************************************************)
C11_RollAgreesWithCdf ==
    (op = "rollFromProbs" /\ pc # "idle") =>
        /\ (pc = "error") = (~buildCDF(weights).ok)
        /\ pc = "done" => idx = invBySeqSearch(buildCDF(weights).val, u)

(***************************************************************************)
(* Vocabulary of the bubble and converter properties.                      *)
(***************************************************************************)
\* the bubble lies inside the die: radius >= 0 and, on every axis,
\* |offset| + radius (the exact sum) <= half of the dimension floored to 0.01
Fits(b, d) ==
    /\ RLeq(Num(0), b.radius)
    /\ RLeq(QAdd(RAbs(b.offset.x), b.radius), halfOf(d).x)
    /\ RLeq(QAdd(RAbs(b.offset.y), b.radius), halfOf(d).y)
    /\ RLeq(QAdd(RAbs(b.offset.z), b.radius), halfOf(d).z)

ClampCalled == op = "clampBubbleToDie" /\ pc = "done"
ApplyCalled == op = "applyBubblePhysics" /\ pc # "idle"

(***************************************************************************)
(* C12: for every enabled bubble, whatever its radius and offset, and any  *)
(* die, the bubble clampBubbleToDie returns has radius >= 0 and, on every  *)
(* axis, |offset| + radius <= the half-extent of the die floored to 0.01.  *)
(***************************************************************************)
C12_ClampedFits ==
    (ClampCalled /\ passed.bubble.enabled) => Fits(retBubble, die)

\* a radius and an offset both outside the box; the room left by the offset,
\* 1 - 33/1024, is not a number and was rounded
C12_Witness ==
    /\ ClampCalled /\ calls = 1
    /\ passed.bubble.enabled /\ passed.bubble.radius = Rat(63, 64)
    /\ passed.bubble.offset = [x |-> Rat(33, 1024), y |-> Rat(33, 64), z |-> Num(0)]
    /\ die = [lx |-> Num(2), ly |-> Rat(3, 2), lz |-> Num(2)]
    /\ retBubble # passed.bubble

(***************************************************************************)
(* C13: clampBubbleToDie is idempotent for a fixed die: clamping the       *)
(* bubble it returned gives a bubble with the same enabled flag, radius    *)
(* and offset.                                                             *)
(***************************************************************************)
C13_ClampIdempotent ==
    (ClampCalled /\ calls = 2) =>
        /\ retBubble.enabled = passed.bubble.enabled
        /\ retBubble.radius = passed.bubble.radius
        /\ retBubble.offset = passed.bubble.offset

\* the second clamp of an enabled bubble whose radius the first one had cut
\* down to the room left in a die of 0.01 x 0.01 x 1
C13_Witness ==
    /\ ClampCalled /\ calls = 2 /\ retBubble.enabled
    /\ die.lx = Num(0) /\ die.ly = Rat(1, 128)
    /\ retBubble.offset.y = Rat(-1, 1024)
    /\ RLt(Num(0), retBubble.radius) /\ RLt(retBubble.radius, Rat(1, 8))

(***************************************************************************)
(* C14: with exponent 1 weightsFromDimensions returns                      *)
(* [lx*lz, ly*lz, lx*ly, lx*ly, ly*lz, lx*lz] of the dimensions floored to *)
(* 0.01: each face gets the area of the face perpendicular to its normal,  *)
(* opposite faces get equal weights, and (2, 1, 1) gives                   *)
(* [2, 1, 2, 2, 1, 2].                                                     *)
(***************************************************************************)
C14_Floored(x) == IF RLeq(x, MinDim) THEN MinDim ELSE x

C14_AreaWeights ==
    (op = "weightsFromDimensions" /\ pc # "idle" /\ exponent = Num(1)) =>
        LET lx == C14_Floored(die.lx)
            ly == C14_Floored(die.ly)
            lz == C14_Floored(die.lz)
        IN  /\ pc = "done"
            /\ ret = <<XMul(lx, lz), XMul(ly, lz), XMul(lx, ly),
                       XMul(lx, ly), XMul(ly, lz), XMul(lx, lz)>>
            /\ ret[1] = ret[6] /\ ret[2] = ret[5] /\ ret[3] = ret[4]
            /\ die = [lx |-> Num(2), ly |-> Num(1), lz |-> Num(1)] =>
                   ret = <<Num(2), Num(1), Num(2), Num(2), Num(1), Num(2)>>

\* the dimensions (2, 1, 1) with exponent 1
C14_Witness ==
    /\ op = "weightsFromDimensions" /\ pc = "done" /\ calls = 1
    /\ exponent = Num(1)
    /\ die = [lx |-> Num(2), ly |-> Num(1), lz |-> Num(1)]
    /\ ret = <<Num(2), Num(1), Num(2), Num(2), Num(1), Num(2)>>

(***************************************************************************)
(* Vocabulary of the round trip dimensions -> weights -> dimensions.       *)
(***************************************************************************)
RoundTripped ==
    /\ op = "dimensionsFromWeights" /\ calls = 2
    /\ IsFinite(exponent) /\ RLt(Num(0), exponent)

\* the numeric tolerance: a is finite and within 4 units in the last place of b
Near(a, b) ==
    /\ IsFinite(a)
    /\ RLeq(QDist(a, b), Rat(4 * b.n, b.d * (2 ^ (Precision - 1))))

Recovered ==
    /\ pc = "done"
    /\ Near(retDims.lx, die.lx) /\ Near(retDims.ly, die.ly) /\ Near(retDims.lz, die.lz)

C16_BadInput ==
    \/ Len(weights) # 6
    \/ \E k \in 1..Len(weights) : ~IsFinite(weights[k]) \/ RLeq(weights[k], Num(0))
    \/ ~IsFinite(exponent) \/ exponent = Num(0)

C16_InvertChecked ==
    (op = "dimensionsFromWeights" /\ pc # "idle") =>
        /\ C16_BadInput =>
              /\ pc = "error"
              /\ err \in {"weights must be an array of length 6.",
                          "exponent must be a finite nonzero number.",
                          "weights must contain finite numbers.",
                          "weights must be > 0 to invert into dimensions."}
        /\ pc = "done" =>
              /\ retDims.lx # NaN /\ RLeq(MinDim, retDims.lx)
              /\ retDims.ly # NaN /\ RLeq(MinDim, retDims.ly)
              /\ retDims.lz # NaN /\ RLeq(MinDim, retDims.lz)

(***************************************************************************)
(* C17: a disabled bubble has no effect: clampBubbleToDie returns it with  *)
(* radius and offset unchanged even when they do not fit the die, and      *)
(* applyBubblePhysics with a disabled or absent bubble returns baseWeights *)
(* unchanged.                                                              *)
(***************************************************************************)
C17_DisabledNoEffect ==
    /\ (ClampCalled /\ ~passed.bubble.enabled) =>
          /\ retBubble = passed.bubble
          /\ ~retBubble.enabled
    /\ (ApplyCalled /\ (passed.bubble = Undefined \/ ~passed.bubble.enabled)) =>
          /\ pc = "done" /\ err = ""
          /\ ret = passed.weights

\* a disabled bubble of radius 2 around (-2, 33/64, 1) in the unit die
C17_Witness ==
    /\ ClampCalled /\ calls = 1
    /\ ~passed.bubble.enabled /\ passed.bubble.radius = Num(2)
    /\ passed.bubble.offset = [x |-> Num(-2), y |-> Rat(33, 64), z |-> Num(1)]
    /\ die = UnitDie
    /\ ~Fits(retBubble, die)

(***************************************************************************)
(* C18: clampBubbleToDie and applyBubblePhysics leave the bubble, the die  *)
(* and the baseWeights passed to them as they were (an enabled bubble      *)
(* comes back as a new object, adjusted weights as a new array), and       *)
(* normalizeWeights and simulateRolls leave the weights passed to them as  *)
(* they were.                                                              *)
(***************************************************************************)
C18_ArgumentsUntouched ==
    /\ (op \in {"clampBubbleToDie", "applyBubblePhysics"} /\ pc # "idle") =>
          /\ bubble = passed.bubble
          /\ die = passed.die
          /\ weights = passed.weights
    /\ (ClampCalled /\ passed.bubble.enabled) => ~aliased
    /\ (ApplyCalled /\ pc = "done" /\ ret # passed.weights) => ~aliased
    /\ (op \in {"normalizeWeights", "simulateRolls"} /\ pc # "idle") =>
          weights = passed.weights

\* weights adjusted by an enabled bubble that the call had to clamp
C18_Witness ==
    /\ ApplyCalled /\ pc = "done" /\ ~aliased
    /\ passed.bubble # Undefined /\ passed.bubble.enabled
    /\ passed.bubble.radius = Num(1)
    /\ passed.bubble.offset = [x |-> Rat(1, 8), y |-> Num(0), z |-> Rat(-1, 8)]
    /\ passed.weights = <<Num(1), Num(2), Num(0), Num(0), Num(2), Num(4)>>
    /\ ret # passed.weights
    /\ bubble = passed.bubble /\ weights = passed.weights

(***************************************************************************)
(* C19: simulateRolls called with valid n and sampleStep and with weights  *)
(* that are empty or hold a negative or non-finite entry throws before any *)
(* value is taken from Math.random, and returns no partial result.         *)
(***************************************************************************)
C19_BadWeights ==
    \/ Len(weights) = 0
    \/ \E k \in 1..Len(weights) : ~IsFinite(weights[k]) \/ RLt(weights[k], Num(0))

C19_RejectsBadWeights ==
    (SimCalled /\ IsFinite(nArg) /\ RLeq(Num(1), nArg)
       /\ IsFinite(stepArg) /\ RLeq(Num(1), stepArg) /\ C19_BadWeights) =>
        /\ pc = "error"
        /\ err \in {"Weights must be a non-empty array.",
                    "Weights must be finite numbers.", "Weights must be >= 0."}
        /\ draws = 0 /\ faces = <<>>
        /\ counts = <<>> /\ relFreq = <<>> /\ runningMean = <<>> /\ probs = <<>>

\* a negative last entry with n = 3 and the default sampleStep
C19_Witness ==
    /\ SimCalled /\ pc = "error" /\ nArg = Num(3) /\ stepArg = Num(DefaultSampleStep)
    /\ weights = <<Num(1), Num(2), Num(-1)>>
    /\ err = "Weights must be >= 0." /\ draws = 0

(***************************************************************************)
(* C20: after any sequence of page actions (mode switches, dimension       *)
(* changes, bubble toggles, radius and offset changes), once the effect on *)
(* the die dimensions has run, a stored bubble that is enabled has         *)
(* radius >= 0 and |offset| + radius <= the half-extent on every axis of   *)
(* the current die dimensions (the unit box in weights mode).              *)
(***************************************************************************)
C20_CurrentDie == IF mode = "weights" THEN UnitDie ELSE dimensions

C20_StoredBubbleFits ==
    (~EffectPending /\ pageBubble.enabled) => Fits(pageBubble, C20_CurrentDie)

\* the default bubble, enabled, after lx was set to 0 (stored as 0.01) in
\* dimensions mode and the effect has cut its radius down to half of 0.01
C20_Witness ==
    /\ ~EffectPending /\ pageBubble.enabled
    /\ mode = "dimensions" /\ dimensions.lx = MinDim
    /\ pageBubble.radius = RDiv(MinDim, Num(2))

(***************************************************************************)
(* Vocabulary of the claims on applyBubblePhysics.                         *)
(***************************************************************************)
\* the call was made with an enabled bubble and six valid weights
ApplyEnabled ==
    /\ ApplyCalled
    /\ passed.bubble # Undefined /\ passed.bubble.enabled
    /\ Len(passed.weights) = 6 /\ ValidVec(passed.weights)

\* the half-extent of a dimension after the floor of 0.01
HalfExtent(x) == RDiv(C14_Floored(x), Num(2))

\* the bubble b has no room in the die d: its radius is not positive or its
\* offset reaches the wall on some axis
NoRoom(b, d) ==
    \/ RLeq(b.radius, Num(0))
    \/ RLeq(HalfExtent(d.lx), RAbs(b.offset.x))
    \/ RLeq(HalfExtent(d.ly), RAbs(b.offset.y))
    \/ RLeq(HalfExtent(d.lz), RAbs(b.offset.z))

(***************************************************************************)
(* C21: applyBubblePhysics returns baseWeights itself, unchanged, whenever *)
(* the radius of the clamped bubble is <= 0; in particular whenever the    *)
(* radius passed is <= 0 or the offset passed reaches or exceeds the       *)
(* half-extent on some axis.                                               *)
(***************************************************************************)
C21_NoEffectWithoutRoom ==
    (ApplyEnabled
       /\ (\/ NoRoom(passed.bubble, passed.die)
           \/ RLeq(clampBubbleToDie(passed.bubble, passed.die).val.radius, Num(0)))) =>
        /\ pc = "done" /\ err = ""
        /\ ret = passed.weights /\ aliased
        /\ NoRoom(passed.bubble, passed.die)
        /\ clampBubbleToDie(passed.bubble, passed.die).val.radius = Num(0)

\* a bubble of radius 1/4 whose offset 1/4 on y reaches the wall of a die
\* with ly = 1/2
C21_Witness ==
    /\ ApplyEnabled /\ pc = "done" /\ aliased
    /\ passed.bubble.radius = Rat(1, 4)
    /\ passed.bubble.offset = [x |-> Num(0), y |-> Rat(1, 4), z |-> Num(0)]
    /\ passed.die.ly = Rat(1, 2)
    /\ passed.weights = <<Num(1), Num(2), Num(0), Num(0), Num(2), Num(4)>>
    /\ ret = passed.weights

(***************************************************************************)
(* C22: in applyBubblePhysics the checks of the bubble and of the length   *)
(* come before the validation of the entries: with a disabled or omitted   *)
(* bubble, or a vector whose length is not 6, the vector is returned as    *)
(* passed, without error, even with negative or non-finite entries; with   *)
(* an enabled bubble and six entries, a negative or non-finite entry makes *)
(* the call throw.                                                         *)
(***************************************************************************)
C22_BadEntry(w) ==
    \E k \in 1..Len(w) : ~IsFinite(w[k]) \/ RLt(w[k], Num(0))

C22_ChecksInOrder ==
    /\ (ApplyCalled /\ (passed.bubble = Undefined \/ ~passed.bubble.enabled
                          \/ Len(passed.weights) # 6)) =>
          /\ pc = "done" /\ err = ""
          /\ ret = passed.weights /\ aliased
    /\ (ApplyCalled /\ passed.bubble # Undefined /\ passed.bubble.enabled
          /\ Len(passed.weights) = 6 /\ C22_BadEntry(passed.weights)) =>
          /\ pc = "error"
          /\ err \in {"baseWeights must contain finite numbers.",
                      "baseWeights must be >= 0."}
          /\ ret = <<>>

\* a disabled bubble with six entries, one NaN and one negative
C22_Witness ==
    /\ ApplyCalled /\ pc = "done" /\ aliased
    /\ passed.bubble # Undefined /\ ~passed.bubble.enabled
    /\ passed.weights = <<Num(1), Num(1), Num(1), Num(1), NaN, Num(-1)>>
    /\ ret = passed.weights


\* the component of the offset o along the outward normal of face f
\* (faces 1..6: +Y, +X, +Z, -Z, -X, -Y)
Along(o, f) ==
    CASE f = 1 -> o.y
      [] f = 2 -> o.x
      [] f = 3 -> o.z
      [] f = 4 -> Neg(o.z)
      [] f = 5 -> Neg(o.x)
      [] f = 6 -> Neg(o.y)

\* the face opposite to face f
Opposite(f) == 7 - f

\* the exact product of two finite numbers
QMul(a, b) == Rat(a.n * b.n, a.d * b.d)

\* the call adjusted the weights of a bubble with room, with k > 0
Adjusting ==
    /\ ApplyEnabled /\ pc = "done"
    /\ ~NoRoom(passed.bubble, passed.die)
    /\ (kBase = Undefined \/ (IsFinite(kBase) /\ RLt(Num(0), kBase)))

(***************************************************************************)
(* C23: for an enabled bubble with positive clamped radius and k > 0,      *)
(* applyBubblePhysics multiplies the weight of a face by a factor > 1 when *)
(* the outward normal of the face points toward the offset of the bubble   *)
(* on that axis, < 1 when it points away, and exactly 1 when the offset    *)
(* has no component on that axis; the factors of two opposite faces are    *)
(* reciprocals of each other.                                              *)
(***************************************************************************)
C23_MultipliersExact ==
    Adjusting =>
      \A f \in 1..6 :
        RLt(Num(0), passed.weights[f]) =>
          /\ RLt(Num(0), Along(passed.bubble.offset, f)) => RLt(passed.weights[f], ret[f])
          /\ RLt(Along(passed.bubble.offset, f), Num(0)) => RLt(ret[f], passed.weights[f])
          /\ Along(passed.bubble.offset, f) = Num(0) => ret[f] = passed.weights[f]
          /\ RLt(Num(0), passed.weights[Opposite(f)]) =>
                /\ IsFinite(ret[f]) /\ IsFinite(ret[Opposite(f)])
                /\ QMul(ret[f], ret[Opposite(f)])
                     = QMul(passed.weights[f], passed.weights[Opposite(f)])

\* C23 as it holds in floating point: the factor is >= 1 toward the offset
\* and <= 1 away from it (a shift too small to register leaves the weight as
\* it was), exactly 1 without a component, and the factors of opposite faces
\* are reciprocals up to rounding while neither overflows or underflows
C23_Multipliers ==
    Adjusting =>
      \A f \in 1..6 :
        RLt(Num(0), passed.weights[f]) =>
          /\ RLt(Num(0), Along(passed.bubble.offset, f)) => RLeq(passed.weights[f], ret[f])
          /\ RLt(Along(passed.bubble.offset, f), Num(0)) => RLeq(ret[f], passed.weights[f])
          /\ Along(passed.bubble.offset, f) = Num(0) => ret[f] = passed.weights[f]
          /\ (/\ RLt(Num(0), passed.weights[Opposite(f)])
              /\ IsFinite(ret[f]) /\ IsFinite(ret[Opposite(f)])
              /\ ret[f] # Num(0) /\ ret[Opposite(f)] # Num(0)) =>
                RLeq(QDist(QMul(ret[f], ret[Opposite(f)]),
                           QMul(passed.weights[f], passed.weights[Opposite(f)])),
                     QMul(QMul(passed.weights[f], passed.weights[Opposite(f)]),
                          Tolerance(4)))

\* a bubble of radius 1/4 offset by 1/8 along +X in the unit die, default k:
\* face 2 (+X) gains, face 5 (-X) loses, the other faces keep their weight
C23_Witness ==
    /\ Adjusting /\ ~aliased /\ kBase = Undefined
    /\ passed.die = UnitDie
    /\ passed.bubble.radius = Rat(1, 4)
    /\ passed.bubble.offset = [x |-> Rat(1, 8), y |-> Num(0), z |-> Num(0)]
    /\ passed.weights = <<Num(1), Num(1), Num(1), Num(1), Num(1), Num(1)>>
    /\ RLt(Num(1), ret[2]) /\ RLt(ret[5], Num(1))
    /\ ret[1] = Num(1) /\ ret[3] = Num(1) /\ ret[4] = Num(1) /\ ret[6] = Num(1)

(***************************************************************************)
(* C24: for six valid baseWeights and every bubble and die,                *)
(* applyBubblePhysics returns six entries, all >= 0, entry i being 0       *)
(* exactly when baseWeights[i] is 0; the result has a positive sum         *)
(* whenever baseWeights has, and normalizeWeights accepts it.              *)
(***************************************************************************)
C24_AdjustedValid ==
    (ApplyCalled /\ Len(passed.weights) = 6 /\ ValidVec(passed.weights)) =>
        /\ pc = "done" /\ Len(ret) = 6
        /\ \A f \in 1..6 :
             /\ IsFinite(ret[f]) /\ RLeq(Num(0), ret[f])
             /\ ret[f] = Num(0) <=> passed.weights[f] = Num(0)
        /\ normalizeWeights(ret).ok
        /\ ~AllZero(passed.weights) => ~AllZero(ret)


(***************************************************************************)
(* C25: for weights with positive sum and draws u in [0, 1), simulateRolls *)
(* never counts a face whose weight is 0: counts[i] = 0 for every i with   *)
(* weights[i] = 0, throughout the loop and in the result.                  *)
(***************************************************************************)
C25_ZeroWeightNeverCounted ==
    (SimCalled /\ pc \in {"loop", "done"} /\ ~AllZero(weights)) =>
        \A k \in 1..Len(weights) : weights[k] = Num(0) => counts[k] = 0


\* v limited to [-h, h]
Clip(v, h) == IF RLt(v, Neg(h)) THEN Neg(h) ELSE IF RLt(h, v) THEN h ELSE v

\* the offset o limited per axis to the half-extents of the die d
Clipped(o, d) ==
    [x |-> Clip(o.x, HalfExtent(d.lx)),
     y |-> Clip(o.y, HalfExtent(d.ly)),
     z |-> Clip(o.z, HalfExtent(d.lz))]

\* the least of three numbers
Least(a, b, c) ==
    IF RLeq(a, b) /\ RLeq(a, c) THEN a ELSE IF RLeq(b, c) THEN b ELSE c

\* the room left around the offset o in the die d
Room(o, d) ==
    Least(RSub(HalfExtent(d.lx), RAbs(o.x)),
          RSub(HalfExtent(d.ly), RAbs(o.y)),
          RSub(HalfExtent(d.lz), RAbs(o.z)))

\* the radius of b limited to [0, the room around its clipped offset]
C26_Radius(b, d) ==
    Least(IF RLt(b.radius, Num(0)) THEN Num(0) ELSE b.radius,
          Room(Clipped(b.offset, d), d), Room(Clipped(b.offset, d), d))

(***************************************************************************)
(* C26: for an enabled bubble the offset returned by clampBubbleToDie is   *)
(* the offset passed, limited per axis to [-half, +half], and the radius   *)
(* returned is min(max(radius, 0), min over the axes of half - |that       *)
(* offset|): the second clamp of the offset never changes it.              *)
(***************************************************************************)
C26_OffsetOnlyClipped ==
    (ClampCalled /\ calls = 1 /\ passed.bubble.enabled) =>
        /\ retBubble.offset = Clipped(passed.bubble.offset, passed.die)
        /\ retBubble.radius = C26_Radius(passed.bubble, passed.die)

\* C26 as it holds in floating point: the radius is as stated; the second
\* clamp moves the offset by at most the rounding error of half - radius,
\* one unit in the last place of the half-extent, and never outward
C26_Moved(o, c, h) ==
    /\ RLeq(RAbs(o), RAbs(c))
    /\ RLeq(QDist(o, c), QMul(h, Tolerance(1)))

C26_OffsetClippedUpToRounding ==
    (ClampCalled /\ calls = 1 /\ passed.bubble.enabled) =>
        /\ C26_Moved(retBubble.offset.x, Clipped(passed.bubble.offset, passed.die).x,
                     HalfExtent(passed.die.lx))
        /\ C26_Moved(retBubble.offset.y, Clipped(passed.bubble.offset, passed.die).y,
                     HalfExtent(passed.die.ly))
        /\ C26_Moved(retBubble.offset.z, Clipped(passed.bubble.offset, passed.die).z,
                     HalfExtent(passed.die.lz))
        /\ retBubble.radius = C26_Radius(passed.bubble, passed.die)

\* a radius of 1/2 shrunk to 1/8 around the offset 3/8, which stays in place
C26_Witness ==
    /\ ClampCalled /\ calls = 1 /\ passed.bubble.enabled
    /\ passed.die = UnitDie
    /\ passed.bubble.radius = Rat(1, 2)
    /\ passed.bubble.offset = [x |-> Rat(3, 8), y |-> Num(0), z |-> Num(0)]
    /\ retBubble.radius = Rat(1, 8)
    /\ retBubble.offset = passed.bubble.offset


(***************************************************************************)
(* C27: at every iteration of the loop of simulateRolls, after the j-th    *)
(* draw the counts sum to j and sumValues is the sum over the faces of     *)
(* (i + 1) * counts[i]; hence every entry of runningMean lies between 1    *)
(* and the number of faces.                                                *)
(***************************************************************************)
C27_LoopInvariant ==
    (SimCalled /\ pc \in {"loop", "done"}) =>
        /\ i = draws /\ Len(faces) = i
        /\ ISum(counts) = i
        /\ sumValues = WeightedCount(counts, Len(counts))
        /\ \A j \in 1..Len(runningMean) :
             /\ RLeq(Num(1), runningMean[j])
             /\ RLeq(runningMean[j], Num(Len(weights)))

\* three draws that hit three different faces, a mean recorded after each
C27_Witness ==
    /\ SimCalled /\ pc = "loop" /\ i = 3 /\ sampleStep = 1
    /\ counts = <<1, 1, 1>> /\ sumValues = 6
    /\ Len(runningMean) = 3 /\ runningMean[3] = Num(2)


(***************************************************************************)
(* C28: on the page the weights shown in the results table (fixedWeights)  *)
(* belong to the simulation whose counts, relFreq and probs are shown: the *)
(* probs shown are the normalised fixedWeights, and an attempt that fails  *)
(* leaves fixedWeights as it leaves the results.                           *)
(***************************************************************************)
C28_TableOfOneSimulation ==
    (simPc = "none" /\ pageCounts # <<>>) =>
        /\ pageProbs = normalizeWeights(fixedWeights).val
        /\ Len(pageCounts) = Len(fixedWeights)

(***************************************************************************)
(* C29: on the page the n plotted for each point of the running mean is    *)
(* the number of draws after which simulateRolls recorded that mean, for   *)
(* every number of rolls, also after the number-of-rolls field is edited.  *)
(***************************************************************************)
C29_PlottedWhereRecorded ==
    \A j \in 1..Len(pageRunningMean) : meanData[j].n = Num(recordedFor[j])

(***************************************************************************)
(* C30: every click on Simulate sets isSimulating and clears the error     *)
(* before the simulation runs; isSimulating eventually returns to false    *)
(* whether simulateRolls returns or throws; once the handler has ended,    *)
(* the error is set exactly when simulateRolls threw.                      *)
(***************************************************************************)
C30_SimulatingFlag ==
    /\ [](simPc = "awaiting" => (isSimulating /\ error = ""))
    /\ [](simPc = "none" => (~isSimulating /\ (error # "" <=> threw)))
    /\ (isSimulating ~> ~isSimulating)

\* a simulation of 0 rolls has thrown: the error is shown and the button is
\* enabled again
C30_Witness ==
    /\ simPc = "none" /\ ~isSimulating /\ threw /\ simN = Num(0)
    /\ error = "An unexpected error occurred during the simulation."

=============================================================================
